---------------------------- MODULE Spec2Model ----------------------------
(***************************************************************************)
(* DriftGuard (SillyTavern extension, v0.5.0): the scoring scheduler, the  *)
(* drift detector and the correction controller.                           *)
(*                                                                         *)
(* Numbers.  The code computes in IEEE doubles; the model computes in      *)
(* fixed point with 1.0 = 100000 (FP).  Scores are multiples of 0.25       *)
(* (QUARTER).  CUSUM sums and means of scores are exact in fixed point up  *)
(* to the rounding of one division; the Kalman estimate is computed by the *)
(* same recurrence as the code, with the gain rounded to 1e-4 and the      *)
(* estimate to 1e-5.                                                       *)
(***************************************************************************)
EXTENDS Integers, Sequences, FiniteSets, Bags, TLC

VARIABLES
    settings,                \* extension_settings[MODULE_NAME]
    cur,                     \* host: the chat that is open (getContext().chatId)
    chat,                    \* host: chat[c] = the turns of chat c
    model_id,                \* host: get_current_model_id()
    meta,                    \* host: meta[c] = the object held in chat_metadata[MODULE_NAME] of chat c
    obj,                     \* heap of session-state objects (create_empty_chat_state)
    SCORING_IN_PROGRESS,
    SCORING_QUEUE,
    PENDING_SWIPE_RESCORES,
    CURRENT_DIMENSIONS,
    timers,                  \* bag of pending setTimeout callbacks
    cycles,                  \* async invocations suspended at an await
    prompt,                  \* host: text under the 'driftguard_correction' injection key
    next_id,                 \* identity of the next object (invocation, generated text, record)
    env                      \* the environment: what the backend may answer, events left

vars == <<settings, cur, chat, model_id, meta, obj, SCORING_IN_PROGRESS, SCORING_QUEUE,
          PENDING_SWIPE_RESCORES, CURRENT_DIMENSIONS, timers, cycles, prompt, next_id, env>>

(***************************************************************************)
(* Bounds of the model.                                                    *)
(***************************************************************************)
MaxReplies == 2       \* replies of the character per chat, after the greeting
MaxInFlight == 2      \* invocations awaiting the backend at the same time
MaxDefaultReplies == 19  \* replies under the default settings (normal operation)
MaxQuickReplies == 4  \* replies under the quick settings (normal operation)
MaxSwipes == 1        \* swipes
MaxSwitches == 1      \* chat switches
MaxOutageReplies == 5 \* replies per chat while the backend is unreliable
MaxReportEntries == 3 \* scored replies before a report is asked for
MaxStream == 3        \* scores of a stream given to cusum()
MaxSamples == 3       \* entries of a history given to update_drift_state()
MaxRecoveryReplies == 7  \* replies while a correction is opened and retired
MaxSelectionReplies == 3 \* replies until two dimensions drift together
MaxLateReplies == 3   \* replies at the end of a long session
MaxMildReplies == 6   \* replies of a session with a mild, lasting deviation
MaxSparseReplies == 3 \* replies of a session in which an answer is incomplete
MaxDrifting == 3      \* dimensions handed to generate_correction()
MaxFailures == 2       \* failures of the backend in one session
MaxRaceReplies == 3    \* replies while a swiped turn is scored beside another cycle
MaxStaleReplies == 7   \* replies while one record follows another
MaxRequests == 2       \* generations the host requests besides the replies
MaxClearedReplies == 4 \* replies of a session in which the scores are cleared
MaxEvents == 1        \* repeated renders, clicks, model selections and backend
                      \* failures, together

(***************************************************************************)
(* Fixed point.                                                            *)
(***************************************************************************)
QUARTER == 25000
FP == 4 * QUARTER
NULL == 0 - 1

Abs(x) == IF x < 0 THEN 0 - x ELSE x
Max2(a, b) == IF a >= b THEN a ELSE b
Min2(a, b) == IF a <= b THEN a ELSE b
\* a / b rounded to the nearest integer (b > 0)
RDiv(a, b) == (2 * a + b) \div (2 * b)

RECURSIVE SeqSum(_)
SeqSum(s) == IF s = <<>> THEN 0 ELSE Head(s) + SeqSum(Tail(s))

RECURSIVE SetMax(_)
SetMax(S) == IF S = {} THEN 0
             ELSE LET x == CHOOSE y \in S : TRUE
                  IN Max2(x, SetMax(S \ {x}))

\* mean(arr): 0 for an empty array
mean(arr) == IF Len(arr) = 0 THEN 0 ELSE RDiv(SeqSum(arr), Len(arr))

\* arr.slice(-n)
LastN(s, n) == IF Len(s) <= n THEN s ELSE SubSeq(s, Len(s) - n + 1, Len(s))

(***************************************************************************)
(* The catalog and the calibration.  Two dimensions of the catalog are     *)
(* modelled; Target is the calibrated target of each (in FP).              *)
(***************************************************************************)
Dims == {"d1", "d2"}
Target(d) == IF d = "d1" THEN 80000 ELSE 50000

Chats == {"A", "B"}
\* The session-state object created for each chat (create_empty_chat_state)
HomeObj(c) == IF c = "A" THEN 1 ELSE 2
Objs == {HomeObj(c) : c \in Chats}

Models == {"m1", "m2"}

DEFAULT_SETTINGS ==
    [ enabled |-> TRUE,
      score_frequency |-> 3,
      score_on_first |-> TRUE,
      drift_window |-> 8,
      drift_threshold |-> 20000,
      drift_alert_threshold |-> 35000,
      correction_enabled |-> TRUE,
      correction_max_dimensions |-> 3,
      correction_patience |-> 2,
      correction_max_attempts |-> 2,
      correction_cooldown |-> 2,
      recovery_margin |-> 5000,
      recovery_patience |-> 2,
      baseline_enabled |-> TRUE,
      analysis_backend |-> "claude_code",
      character_dimensions |-> [c \in Chats |-> {}] ]

get_settings(key) == settings[key]

MIN_SCORES_FOR_CORRECTION == 2
MIN_SCORES_FOR_VERDICT == 2
MIN_SCORES_FOR_DEVIATION_VERDICT == 5
FLOAT_EPSILON == 100
MAX_SCORE_HISTORY == 200
MA_CONSECUTIVE_REQUIRED == 3

NoCorrection ==
    [ enabled |-> FALSE, rid |-> 0, dim_ids |-> {}, injection_text |-> 0,
      since_message |-> NULL, attempt |-> 0, scores_since_correction |-> 0,
      deviation_at_correction |-> 0 ]

\* report: null
NoReport == [generated |-> FALSE, card_resilience |-> 0, session_quality |-> 0,
             model_compatibility |-> 0]

create_empty_chat_state ==
    [ dimensions |-> {},
      report |-> NoReport,
      score_history |-> <<>>,
      drift_state |-> <<>>,
      active_correction |-> NoCorrection,
      ceiling_dimensions |-> {},
      ceiling_model |-> "null",
      cooldown_remaining |-> 0,
      recovery_cycles |-> 0,
      messages_scored |-> 0,
      corrections_injected |-> 0,
      ever_corrected_dimensions |-> {},
      ever_cusum_triggered |-> {},
      ever_ma_triggered |-> {},
      ma_consecutive_above |-> [d \in Dims |-> 0],
      cusum_reset_after |-> [d \in Dims |-> NULL],
      last_scored_message_id |-> NULL ]

(***************************************************************************)
(* Smoothing and change detection.                                         *)
(***************************************************************************)
\* One predict/update step of the scalar Kalman filter: xP = <<x, P>>, P in 1e-6
KalmanStep(xP, z) ==
    LET P_pred == xP[2] + 5000
        K == RDiv(P_pred * 10000, P_pred + 40000)
    IN  << xP[1] + RDiv(K * (z - xP[1]), 10000), RDiv((10000 - K) * P_pred, 10000) >>

RECURSIVE KalmanFold(_, _)
KalmanFold(xP, rest) ==
    IF rest = <<>> THEN xP ELSE KalmanFold(KalmanStep(xP, Head(rest)), Tail(rest))

\* kalman_filter(scores).estimate, for a non-empty array
kalman_filter(scores) ==
    IF Len(scores) = 1 THEN scores[1]
    ELSE KalmanFold(<<scores[1], 40000>>, Tail(scores))[1]

\* DISCRETE_SCALE.reduce(...): the first scale point at minimal distance
DISCRETE_SCALE == <<0, QUARTER, 2 * QUARTER, 3 * QUARTER, 4 * QUARTER>>

\* a snap that cuts the value down to the scale point below it
snap_to_discrete_down(value) == (value \div QUARTER) * QUARTER

RECURSIVE SnapFrom(_, _, _)
SnapFrom(best, i, value) ==
    IF i > Len(DISCRETE_SCALE) THEN best
    ELSE SnapFrom(IF Abs(DISCRETE_SCALE[i] - value) < Abs(best - value)
                  THEN DISCRETE_SCALE[i] ELSE best, i + 1, value)
snap_to_discrete(value) == SnapFrom(DISCRETE_SCALE[1], 2, value)

\* an accumulator that adds up every deviation, allowance or not
RECURSIVE CusumFold_no_allowance(_, _, _, _)
CusumFold_no_allowance(S, scores, target, allowance) ==
    IF scores = <<>> THEN S
    ELSE CusumFold_no_allowance(Max2(0, S + Abs(Head(scores) - target)),
                                Tail(scores), target, allowance)

RECURSIVE CusumFold(_, _, _, _)
CusumFold(S, scores, target, allowance) ==
    IF scores = <<>> THEN S
    ELSE CusumFold(Max2(0, S + (Abs(Head(scores) - target) - allowance)),
                   Tail(scores), target, allowance)

\* the finest resolution used: 1.0 is MICRO units, and EPSILON = 1e-6 is one
MICRO == 10 * FP

\* cusum(scores, target, allowance, decision_threshold) for numbers of which
\* 1.0 is `unit` units: S >= decision_threshold - EPSILON, both sides in 1e-6
CusumAt(unit, scores, target, allowance, decision_threshold) ==
    LET S == CusumFold(0, scores, target, allowance)
    IN  [cusum |-> S,
         triggered |-> /\ Len(scores) > 0
                       /\ S * (MICRO \div unit) >= decision_threshold * (MICRO \div unit) - 1]

\* cusum(scores, target, allowance, decision_threshold) in fixed point
cusum(scores, target, allowance, decision_threshold) ==
    CusumAt(FP, scores, target, allowance, decision_threshold)

\* Math.sqrt(Math.log2(n + 1)) in 1e-4, for the n the model reaches
bonferroni_factor(n) ==
    IF n <= 1 THEN 10000 ELSE IF n = 2 THEN 12590 ELSE 14142

\* entry.scores[dim.id] of the entries of a window, the undefined ones dropped
DimScores(window, d) ==
    LET present == SelectSeq(window, LAMBDA e : e.scores[d] # NULL)
    IN  [i \in 1..Len(present) |-> present[i].scores[d]]

NoData == [moving_avg |-> NULL, deviation |-> NULL, trend |-> "no_data",
           correcting |-> FALSE, severe |-> FALSE, cusum_value |-> 0]

\* CUSUM parameters with the allowance of the comment in the code
\* ("allowance=0.10, decision=0.64"): half the threshold, without the floor
cusum_parameters_unfloored(n) ==
    LET drift_window == get_settings("drift_window")
        allowance == get_settings("drift_threshold") \div 2
        severe_allowance == get_settings("drift_alert_threshold") \div 2
        factor == bonferroni_factor(n)
    IN  [ allowance |-> allowance,
          decision_threshold |-> (((allowance * drift_window * 8) \div 10) * factor) \div 10000,
          severe_allowance |-> severe_allowance,
          severe_decision |->
              (((severe_allowance * drift_window * 5) \div 10) * factor) \div 10000 ]

\* "CUSUM parameters derived from existing settings"; n = dimensions.length
cusum_parameters(n) ==
    LET drift_window == get_settings("drift_window")
        threshold == get_settings("drift_threshold")
        alert_threshold == get_settings("drift_alert_threshold")
        allowance == Max2(threshold \div 2, QUARTER \div 2)
        base_decision_threshold == (allowance * drift_window * 8) \div 10
        severe_allowance == Max2(alert_threshold \div 2, QUARTER \div 2)
        base_severe_decision == (severe_allowance * drift_window * 5) \div 10
        factor == bonferroni_factor(n)
    IN  [ allowance |-> allowance,
          decision_threshold |-> (base_decision_threshold * factor) \div 10000,
          severe_allowance |-> severe_allowance,
          severe_decision |-> (base_severe_decision * factor) \div 10000 ]

\* One dimension's entry of update_drift_state, for a dimension d whose
\* dim.target is target; n = dimensions.length
\* an entry whose CUSUM window takes no notice of the reset marker
DriftAt_unmarked(target, d, n, score_history, cusum_reset_after) ==
    LET drift_window == get_settings("drift_window")
        allowance == cusum_parameters(n).allowance
        decision_threshold == cusum_parameters(n).decision_threshold
        severe_allowance == cusum_parameters(n).severe_allowance
        severe_decision == cusum_parameters(n).severe_decision
        recent_scores == DimScores(LastN(score_history, drift_window), d)
        reset_after_id == cusum_reset_after[d]
        cusum_window == LastN(score_history, drift_window * 2)
        cusum_history == cusum_window
        cusum_scores == DimScores(cusum_history, d)
        moving_avg == kalman_filter(recent_scores)
        deviation == Abs(moving_avg - target)
        mid == (Len(recent_scores) + 1) \div 2
        first_half_dev == Abs(mean(SubSeq(recent_scores, 1, mid)) - target)
        second_half_dev ==
            Abs(mean(SubSeq(recent_scores, mid + 1, Len(recent_scores))) - target)
        trend == IF second_half_dev > first_half_dev + 3000 THEN "drifting"
                 ELSE IF second_half_dev < first_half_dev - 3000 THEN "correcting"
                 ELSE "stable"
        cusum_result == cusum(cusum_scores, target, allowance, decision_threshold)
        severe_result == cusum(cusum_scores, target, severe_allowance, severe_decision)
    IN  IF Len(recent_scores) = 0 THEN NoData
        ELSE IF Len(recent_scores) < MIN_SCORES_FOR_CORRECTION
        THEN [moving_avg |-> moving_avg, deviation |-> deviation,
              trend |-> "insufficient_data", correcting |-> FALSE,
              severe |-> FALSE, cusum_value |-> 0]
        ELSE [moving_avg |-> moving_avg, deviation |-> deviation, trend |-> trend,
              correcting |-> cusum_result.triggered, severe |-> severe_result.triggered,
              cusum_value |-> cusum_result.cusum]

\* an entry that is computed in full from the first score on
DriftAt_from_first_score(target, d, n, score_history, cusum_reset_after) ==
    LET drift_window == get_settings("drift_window")
        allowance == cusum_parameters(n).allowance
        decision_threshold == cusum_parameters(n).decision_threshold
        severe_allowance == cusum_parameters(n).severe_allowance
        severe_decision == cusum_parameters(n).severe_decision
        recent_scores == DimScores(LastN(score_history, drift_window), d)
        reset_after_id == cusum_reset_after[d]
        cusum_window == LastN(score_history, drift_window * 2)
        cusum_history == IF reset_after_id # NULL
                         THEN SelectSeq(cusum_window, LAMBDA e : e.message_id > reset_after_id)
                         ELSE cusum_window
        cusum_scores == DimScores(cusum_history, d)
        moving_avg == kalman_filter(recent_scores)
        deviation == Abs(moving_avg - target)
        mid == (Len(recent_scores) + 1) \div 2
        first_half_dev == Abs(mean(SubSeq(recent_scores, 1, mid)) - target)
        second_half_dev ==
            Abs(mean(SubSeq(recent_scores, mid + 1, Len(recent_scores))) - target)
        trend == IF second_half_dev > first_half_dev + 3000 THEN "drifting"
                 ELSE IF second_half_dev < first_half_dev - 3000 THEN "correcting"
                 ELSE "stable"
        cusum_result == cusum(cusum_scores, target, allowance, decision_threshold)
        severe_result == cusum(cusum_scores, target, severe_allowance, severe_decision)
    IN  IF Len(recent_scores) = 0 THEN NoData
        ELSE [moving_avg |-> moving_avg, deviation |-> deviation, trend |-> trend,
              correcting |-> cusum_result.triggered, severe |-> severe_result.triggered,
              cusum_value |-> cusum_result.cusum]

DriftAt(target, d, n, score_history, cusum_reset_after) ==
    LET drift_window == get_settings("drift_window")
        allowance == cusum_parameters(n).allowance
        decision_threshold == cusum_parameters(n).decision_threshold
        severe_allowance == cusum_parameters(n).severe_allowance
        severe_decision == cusum_parameters(n).severe_decision
        recent_scores == DimScores(LastN(score_history, drift_window), d)
        reset_after_id == cusum_reset_after[d]
        cusum_window == LastN(score_history, drift_window * 2)
        cusum_history == IF reset_after_id # NULL
                         THEN SelectSeq(cusum_window, LAMBDA e : e.message_id > reset_after_id)
                         ELSE cusum_window
        cusum_scores == DimScores(cusum_history, d)
        moving_avg == kalman_filter(recent_scores)
        deviation == Abs(moving_avg - target)
        mid == (Len(recent_scores) + 1) \div 2
        first_half_dev == Abs(mean(SubSeq(recent_scores, 1, mid)) - target)
        second_half_dev ==
            Abs(mean(SubSeq(recent_scores, mid + 1, Len(recent_scores))) - target)
        trend == IF second_half_dev > first_half_dev + 3000 THEN "drifting"
                 ELSE IF second_half_dev < first_half_dev - 3000 THEN "correcting"
                 ELSE "stable"
        cusum_result == cusum(cusum_scores, target, allowance, decision_threshold)
        severe_result == cusum(cusum_scores, target, severe_allowance, severe_decision)
    IN  IF Len(recent_scores) = 0 THEN NoData
        ELSE IF Len(recent_scores) < MIN_SCORES_FOR_CORRECTION
        THEN [moving_avg |-> moving_avg, deviation |-> deviation,
              trend |-> "insufficient_data", correcting |-> FALSE,
              severe |-> FALSE, cusum_value |-> 0]
        ELSE [moving_avg |-> moving_avg, deviation |-> deviation, trend |-> trend,
              correcting |-> cusum_result.triggered, severe |-> severe_result.triggered,
              cusum_value |-> cusum_result.cusum]

\* One dimension's entry of update_drift_state, for a dimension of the catalog
DriftOf(d, n, score_history, cusum_reset_after) ==
    DriftAt(Target(d), d, n, score_history, cusum_reset_after)

\* update_drift_state(dimensions, score_history, cusum_reset_after)
update_drift_state(dimensions, score_history, cusum_reset_after) ==
    [d \in dimensions |->
        DriftOf(d, Cardinality(dimensions), score_history, cusum_reset_after)]

\* compute_post_correction_averages(...)[dim_id]; NULL when no score came after
post_correction_average(dim_id, score_history, since_message) ==
    LET post_scores ==
            DimScores(SelectSeq(score_history, LAMBDA e : e.message_id > since_message), dim_id)
    IN  IF Len(post_scores) > 0 THEN mean(post_scores) ELSE NULL

(***************************************************************************)
(* The correction controller: score_and_process_message from the drifting  *)
(* filter to the end of its try block.  The code runs it in two parts      *)
(* around `await generate_correction(...)`:                                *)
(*   Controller  - the synchronous part up to the await (or to the end);   *)
(*   Resume      - the part after the await;                               *)
(*   CeilingRecovered - the ceiling check both end with.                   *)
(* s is the session-state object `state`; drift, scores, message_index are *)
(* the locals of the invocation.                                           *)
(***************************************************************************)
\* drifting, as first filtered: CUSUM-triggered and not ceilinged
CusumDrifting(s, drift) ==
    {d \in DOMAIN drift : drift[d].correcting /\ d \notin s.ceiling_dimensions}

\* a counter that counts every cycle with a deviation above the threshold,
\* whatever the number of scores behind it
MaCounter_any_trend(s, drift, d) ==
    IF d \notin DOMAIN drift THEN s.ma_consecutive_above[d]
    ELSE IF d \in s.ceiling_dimensions \/ d \in CusumDrifting(s, drift) THEN 0
    ELSE IF /\ drift[d].deviation # NULL
            /\ drift[d].deviation > get_settings("drift_threshold")
         THEN s.ma_consecutive_above[d] + 1
         ELSE 0

\* state.ma_consecutive_above[dim_id] after the fallback loop
MaCounter(s, drift, d) ==
    IF d \notin DOMAIN drift THEN s.ma_consecutive_above[d]
    ELSE IF d \in s.ceiling_dimensions \/ d \in CusumDrifting(s, drift) THEN 0
    ELSE IF /\ drift[d].deviation # NULL
            /\ drift[d].deviation > get_settings("drift_threshold")
            /\ drift[d].trend \notin {"no_data", "insufficient_data"}
         THEN s.ma_consecutive_above[d] + 1
         ELSE 0

\* the dimensions the fallback pushes into drifting
MaDrifting(s, drift) ==
    {d \in DOMAIN drift : /\ d \notin s.ceiling_dimensions
                          /\ d \notin CusumDrifting(s, drift)
                          /\ MaCounter(s, drift, d) >= MA_CONSECUTIVE_REQUIRED}

Drifting(s, drift) == CusumDrifting(s, drift) \cup MaDrifting(s, drift)

\* Math.max(...ds.map(d => d.deviation || 0))
MaxDeviation(drift, ds) ==
    SetMax({IF drift[d].deviation = NULL THEN 0 ELSE drift[d].deviation : d \in ds})

\* post_avgs[dim_id] ?? drift[dim_id]?.moving_avg ?? null
EffectiveAvg(s, drift, d) ==
    LET pa == post_correction_average(d, s.score_history, s.active_correction.since_message)
    IN  IF pa # NULL THEN pa
        ELSE IF d \in DOMAIN drift THEN drift[d].moving_avg ELSE NULL

EffectiveDev(s, drift, d) ==
    IF EffectiveAvg(s, drift, d) # NULL /\ d \in s.dimensions
    THEN Abs(EffectiveAvg(s, drift, d) - Target(d)) ELSE NULL

\* what the synchronous part hands on: the state, whether clear_correction()
\* ran, and where it stopped (k): "end" falls through to the ceiling check,
\* "ret" returned early, the others await generate_correction
Out(st, clear, k, gdims, gdev) ==
    [st |-> st, clear |-> clear, k |-> k, gdims |-> gdims, gdev |-> gdev,
     rid |-> st.active_correction.rid]

\* CUSUM reset markers and MA counters of the recovered record's dimensions
WithResetMarkers(s) ==
    [s EXCEPT
       !.cusum_reset_after = [d \in Dims |->
            IF d \in s.active_correction.dim_ids THEN s.last_scored_message_id ELSE @[d]],
       !.ma_consecutive_above = [d \in Dims |->
            IF d \in s.active_correction.dim_ids THEN 0 ELSE @[d]]]

ResetPatience(s, current_worst_dev) ==
    [s EXCEPT !.active_correction.scores_since_correction = 0,
              !.active_correction.deviation_at_correction = current_worst_dev]

\* a ladder that takes every stagnant evaluation for a worsening one
any_worsening_always(corrected_trends) == TRUE

\* corrected_trends.some(t => t === 'drifting')
any_worsening(corrected_trends) == "drifting" \in corrected_trends

\* the patience evaluation of an enabled record (scores_since_correction >= patience)
Evaluate(s, drift, drifting) ==
    LET correction == s.active_correction
        threshold == get_settings("drift_threshold")
        max_attempts == get_settings("correction_max_attempts")
        recovery_threshold == threshold - get_settings("recovery_margin")
        corrected_still_drifting ==
            {d \in correction.dim_ids :
                \/ EffectiveDev(s, drift, d) = NULL
                \/ EffectiveDev(s, drift, d) > recovery_threshold}
        current_worst_dev ==
            SetMax({IF EffectiveDev(s, drift, d) = NULL THEN 0 ELSE EffectiveDev(s, drift, d) :
                    d \in corrected_still_drifting})
        worsened == current_worst_dev > correction.deviation_at_correction + 5000
        improved == current_worst_dev < correction.deviation_at_correction - 2000
        corrected_trends == {drift[d].trend : d \in correction.dim_ids \cap DOMAIN drift}
        all_recovering == corrected_trends = {"correcting"}
        still_drifting == drifting \ correction.dim_ids
    IN  IF corrected_still_drifting = {}
        THEN IF still_drifting # {}
             THEN Out(WithResetMarkers(s), TRUE, "recnew", still_drifting,
                      MaxDeviation(drift, still_drifting))
             ELSE Out([WithResetMarkers(s) EXCEPT
                          !.active_correction = NoCorrection,
                          !.cooldown_remaining = get_settings("correction_cooldown")],
                      TRUE, "end", {}, 0)
        ELSE IF all_recovering
        THEN Out(ResetPatience(s, current_worst_dev), FALSE, "end", {}, 0)
        ELSE IF worsened /\ correction.attempt < max_attempts
        THEN Out(s, FALSE, "esc", corrected_still_drifting, current_worst_dev)
        ELSE IF improved
        THEN Out(ResetPatience(s, current_worst_dev), FALSE, "end", {}, 0)
        ELSE IF ~any_worsening(corrected_trends)
        THEN Out(ResetPatience(s, current_worst_dev), FALSE, "end", {}, 0)
        ELSE IF correction.attempt < max_attempts
        THEN Out(s, FALSE, "esc", corrected_still_drifting, current_worst_dev)
        ELSE LET ceilinged ==
                     [s EXCEPT !.ceiling_dimensions = @ \cup correction.dim_ids,
                               !.ceiling_model = model_id]
             IN  IF still_drifting = {}
                 THEN Out([ceilinged EXCEPT !.active_correction = NoCorrection],
                          TRUE, "end", {}, 0)
                 ELSE Out(ceilinged, FALSE, "ceilnew", still_drifting,
                          MaxDeviation(drift, still_drifting))

\* no dimension drifting while a record is enabled: the recovery confirmation
ConfirmRecovery(s, drift) ==
    LET recovery_dev_threshold ==
            get_settings("drift_threshold") - get_settings("recovery_margin")
        all_within_tolerance ==
            \A d \in s.active_correction.dim_ids :
                /\ EffectiveAvg(s, drift, d) # NULL
                /\ d \in s.dimensions
                /\ Abs(EffectiveAvg(s, drift, d) - Target(d))
                       <= recovery_dev_threshold + FLOAT_EPSILON
    IN  IF ~all_within_tolerance
        THEN Out([s EXCEPT !.recovery_cycles = 0], FALSE, "end", {}, 0)
        ELSE IF s.recovery_cycles + 1 >= get_settings("recovery_patience")
        THEN Out([WithResetMarkers(s) EXCEPT
                     !.active_correction = NoCorrection,
                     !.cooldown_remaining = get_settings("correction_cooldown"),
                     !.recovery_cycles = 0],
                 TRUE, "end", {}, 0)
        ELSE Out([s EXCEPT !.recovery_cycles = @ + 1], FALSE, "end", {}, 0)

\* a controller that does not look at the cooldown
Controller_ignoring_cooldown(s0, drift, scores) ==
    LET drifting == Drifting(s0, drift)
        s1 == [s0 EXCEPT
                 !.ma_consecutive_above = [d \in Dims |-> MaCounter(s0, drift, d)],
                 !.ever_cusum_triggered = @ \cup CusumDrifting(s0, drift),
                 !.ever_ma_triggered = @ \cup MaDrifting(s0, drift)]
        corrected_dim_scored == \E d \in s1.active_correction.dim_ids : scores[d] # NULL
        s2 == IF corrected_dim_scored
              THEN [s1 EXCEPT !.active_correction.scores_since_correction = @ + 1]
              ELSE s1
    IN  IF drifting # {}
        THEN IF ~s1.active_correction.enabled
             THEN Out(s1, FALSE, "new", drifting, MaxDeviation(drift, drifting))
             ELSE IF s2.active_correction.scores_since_correction
                        >= get_settings("correction_patience")
             THEN Evaluate(s2, drift, drifting)
             ELSE Out(s2, FALSE, "end", {}, 0)
        ELSE IF s1.active_correction.enabled
        THEN ConfirmRecovery(s1, drift)
        ELSE Out(s1, FALSE, "end", {}, 0)

Controller(s0, drift, scores) ==
    LET drifting == Drifting(s0, drift)
        s1 == [s0 EXCEPT
                 !.ma_consecutive_above = [d \in Dims |-> MaCounter(s0, drift, d)],
                 !.ever_cusum_triggered = @ \cup CusumDrifting(s0, drift),
                 !.ever_ma_triggered = @ \cup MaDrifting(s0, drift)]
        corrected_dim_scored == \E d \in s1.active_correction.dim_ids : scores[d] # NULL
        s2 == IF corrected_dim_scored
              THEN [s1 EXCEPT !.active_correction.scores_since_correction = @ + 1]
              ELSE s1
    IN  IF drifting # {}
        THEN IF s1.cooldown_remaining > 0
             THEN Out([s1 EXCEPT !.cooldown_remaining = @ - 1], FALSE, "ret", {}, 0)
             ELSE IF ~s1.active_correction.enabled
             THEN Out(s1, FALSE, "new", drifting, MaxDeviation(drift, drifting))
             ELSE IF s2.active_correction.scores_since_correction
                        >= get_settings("correction_patience")
             THEN Evaluate(s2, drift, drifting)
             ELSE Out(s2, FALSE, "end", {}, 0)
        ELSE IF s1.active_correction.enabled
        THEN ConfirmRecovery(s1, drift)
        ELSE Out(s1, FALSE, "end", {}, 0)

\* "Check if any ceiling dimensions have naturally recovered"
CeilingRecovered(s, drift) ==
    LET recovered ==
            {d \in s.ceiling_dimensions :
                /\ d \in DOMAIN drift
                /\ drift[d].deviation # NULL
                /\ drift[d].deviation <= get_settings("drift_threshold") + FLOAT_EPSILON}
    IN  [s EXCEPT !.ceiling_dimensions = @ \ recovered]

\* a record that is stored but not enabled
NewRecord_disabled(text, gdims, gdev, message_index) ==
    [ enabled |-> FALSE, rid |-> text, dim_ids |-> gdims, injection_text |-> text,
      since_message |-> message_index, attempt |-> 1, scores_since_correction |-> 0,
      deviation_at_correction |-> gdev ]

\* a record opened for gdims with the generated text
NewRecord(text, gdims, gdev, message_index) ==
    [ enabled |-> TRUE, rid |-> text, dim_ids |-> gdims, injection_text |-> text,
      since_message |-> message_index, attempt |-> 1, scores_since_correction |-> 0,
      deviation_at_correction |-> gdev ]

\* the part after `await generate_correction(...)`; c holds the locals
Resume(s, c, text) ==
    IF c.k = "esc"
    THEN LET same == s.active_correction.rid = c.rid    \* `correction` is still state.active_correction
             s1 == IF same
                   THEN [s EXCEPT !.active_correction.injection_text = text,
                                  !.active_correction.attempt = @ + 1,
                                  !.active_correction.scores_since_correction = 0,
                                  !.active_correction.deviation_at_correction = c.gdev]
                   ELSE s
         IN  [s1 EXCEPT !.corrections_injected = @ + 1]
    ELSE [s EXCEPT !.active_correction = NewRecord(text, c.gdims, c.gdev, c.msg),
                   !.corrections_injected = @ + 1,
                   !.ever_corrected_dimensions = @ \cup c.gdims]

(***************************************************************************)
(* The host: chats, turns, the session-state object of the open chat.      *)
(* Turn i of the code (0-based) is chat[c][i + 1].                         *)
(***************************************************************************)
Turn(kind) == [kind |-> kind, ver |-> 1, shown |-> 1, scored |-> FALSE]

HasTurn(c, i) == i >= 0 /\ i < Len(chat[c])
TurnAt(c, i) == chat[c][i + 1]
\* msg && !msg.is_user && !msg.is_system
IsAiTurn(c, i) == HasTurn(c, i) /\ TurnAt(c, i).kind \notin {"user", "system"}

\* get_chat_state(): the object in the open chat's metadata
get_chat_state == obj[meta[cur]]

\* is_greeting_message: turn 0 (no later turn repeats the card's first_mes)
is_greeting_message(i) == i = 0
\* is_ooc_message: decided by the text; a turn of kind "ooc" is an OOC reply
is_ooc_message(c, i) == TurnAt(c, i).kind = "ooc"

\* count_ai_messages_since_last_score()
count_ai_messages_since_last_score ==
    LET last_scored_id == get_chat_state.last_scored_message_id
    IN  Cardinality({i \in 0..(Len(chat[cur]) - 1) :
                        /\ (last_scored_id = NULL \/ i > last_scored_id)
                        /\ IsAiTurn(cur, i)})

\* should_score_message()
should_score_message ==
    \/ get_chat_state.messages_scored = 0 /\ get_settings("score_on_first")
    \/ count_ai_messages_since_last_score >= get_settings("score_frequency")

\* score_and_process_message, lines 1795-1810: ceiling cleared on a model change
CeilingClearedOnModelChange(s) ==
    IF /\ s.ceiling_dimensions # {}
       /\ s.ceiling_model # "null"
       /\ model_id # s.ceiling_model
       /\ model_id # "unknown"
    THEN [s EXCEPT !.ceiling_dimensions = {}, !.ceiling_model = "null"]
    ELSE s

\* score_and_process_message up to `SCORING_IN_PROGRESS = true`: does it go on?
PassesEarlyReturns(message_index, force) ==
    /\ get_chat_state.dimensions # {}
    /\ IsAiTurn(cur, message_index)
    /\ ~is_greeting_message(message_index)
    /\ ~is_ooc_message(cur, message_index)
    /\ (force \/ should_score_message)

\* what the controller decides on: the record (which dimensions, since when,
\* which attempt), the ceiling set, the CUSUM reset markers and the cooldown
Decided(s) ==
    [ enabled |-> s.active_correction.enabled,
      dim_ids |-> s.active_correction.dim_ids,
      since_message |-> s.active_correction.since_message,
      attempt |-> s.active_correction.attempt,
      ceiling_dimensions |-> s.ceiling_dimensions,
      cusum_reset_after |-> s.cusum_reset_after,
      cooldown_remaining |-> s.cooldown_remaining ]

\* no request of the invocation is looked at (the await is taken as a whole)
NoCall == [backend |-> "none", phase |-> "none", attempt |-> 0, expect_json |-> FALSE]

\* the locals of an invocation suspended at an await; pre remembers what was
\* decided when the controller began (a history field, the code has none);
\* net is where its request to the backend stands; report is the report that
\* generate_report has built
Invocation(fn, message_index, force, todo) ==
    [ id |-> next_id, fn |-> fn, pc |-> "score", msg |-> message_index, force |-> force,
      st |-> meta[cur], ch |-> cur,
      ver |-> IF HasTurn(cur, message_index) THEN TurnAt(cur, message_index).ver ELSE 0,
      dims |-> get_chat_state.dimensions, todo |-> todo,
      drift |-> <<>>, k |-> "none", gdims |-> {}, gdev |-> 0, rid |-> 0,
      pre |-> Decided(create_empty_chat_state), net |-> NoCall, report |-> NoReport ]

\* setTimeout(() => fn(id), 500) of the render handler
Callback(fn, id) == [fn |-> fn, id |-> id, delay |-> 500]

\* setTimeout(() => on_message_received(next_index), 100) of the queue drain
QueuedCallback(id) == [fn |-> "on_message_received", id |-> id, delay |-> 100]

\* a drain that takes the index queued last
DrainQueue_newest_first(q) ==
    IF q = <<>> THEN [queue |-> <<>>, next |-> NULL]
    ELSE [queue |-> SubSeq(q, 1, Len(q) - 1), next |-> q[Len(q)]]

\* a drain that stops at the first stale index instead of going on
DrainQueue_stop_at_stale(q) ==
    IF q = <<>> THEN [queue |-> <<>>, next |-> NULL]
    ELSE IF IsAiTurn(cur, Head(q)) THEN [queue |-> Tail(q), next |-> Head(q)]
    ELSE [queue |-> Tail(q), next |-> NULL]

\* the `finally` of score_and_process_message: the queue after the drain loop
\* and the index handed to setTimeout (NULL when none)
RECURSIVE DrainQueue(_)
DrainQueue(q) ==
    IF q = <<>> THEN [queue |-> <<>>, next |-> NULL]
    ELSE IF IsAiTurn(cur, Head(q)) THEN [queue |-> Tail(q), next |-> Head(q)]
    ELSE DrainQueue(Tail(q))

Finally(y) ==
    /\ SCORING_IN_PROGRESS' = FALSE
    /\ SCORING_QUEUE' = DrainQueue(SCORING_QUEUE).queue
    /\ timers' = IF DrainQueue(SCORING_QUEUE).next = NULL THEN timers
                 ELSE timers (+) SetToBag({QueuedCallback(DrainQueue(SCORING_QUEUE).next)})
    /\ cycles' = cycles \ {y}

\* score_and_process_message(message_index, {force}) up to its first await
score_and_process_message(message_index, force) ==
    /\ obj' = IF get_chat_state.dimensions = {} THEN obj
              ELSE [obj EXCEPT ![meta[cur]] = CeilingClearedOnModelChange(@)]
    /\ IF PassesEarlyReturns(message_index, force)
       THEN /\ Cardinality(cycles) < MaxInFlight
            /\ SCORING_IN_PROGRESS' = TRUE
            /\ cycles' = cycles \cup {Invocation("score_and_process_message",
                                                  message_index, force, <<>>)}
            /\ next_id' = next_id + 1
       ELSE UNCHANGED <<SCORING_IN_PROGRESS, cycles, next_id>>
    /\ UNCHANGED <<settings, cur, chat, model_id, meta, SCORING_QUEUE,
                   PENDING_SWIPE_RESCORES, CURRENT_DIMENSIONS, prompt>>

\* on_message_received(message_index)
on_message_received(message_index) ==
    IF ~get_settings("enabled")
    THEN UNCHANGED <<settings, cur, chat, model_id, meta, obj, SCORING_IN_PROGRESS,
                     SCORING_QUEUE, PENDING_SWIPE_RESCORES, CURRENT_DIMENSIONS, cycles,
                     prompt, next_id>>
    ELSE IF SCORING_IN_PROGRESS
    THEN /\ SCORING_QUEUE' = IF \E k \in 1..Len(SCORING_QUEUE) : SCORING_QUEUE[k] = message_index
                             THEN SCORING_QUEUE
                             ELSE Append(SCORING_QUEUE, message_index)
         /\ UNCHANGED <<settings, cur, chat, model_id, meta, obj, SCORING_IN_PROGRESS,
                        PENDING_SWIPE_RESCORES, CURRENT_DIMENSIONS, cycles, prompt, next_id>>
    ELSE score_and_process_message(message_index, FALSE)

(***************************************************************************)
(* Host events and their handlers.                                         *)
(***************************************************************************)
\* one more of the bounded events
Spend(what) == env' = [env EXCEPT ![what] = @ - 1]

\* a render handler that leaves the re-score flag armed
CHARACTER_MESSAGE_RENDERED_keeps_flag(id) ==
    /\ IF id \in PENDING_SWIPE_RESCORES
       THEN /\ timers' = timers (+) SetToBag({Callback("score_and_process_message", id)})
            /\ UNCHANGED PENDING_SWIPE_RESCORES
       ELSE /\ timers' = timers (+) SetToBag({Callback("on_message_received", id)})
            /\ UNCHANGED PENDING_SWIPE_RESCORES
    /\ UNCHANGED <<settings, cur, model_id, meta, obj, SCORING_IN_PROGRESS, SCORING_QUEUE,
                   CURRENT_DIMENSIONS, cycles, prompt, next_id>>

\* eventSource.on(CHARACTER_MESSAGE_RENDERED, id => ...)
\* (the caller gives chat')
CHARACTER_MESSAGE_RENDERED(id) ==
    /\ IF id \in PENDING_SWIPE_RESCORES
       THEN /\ PENDING_SWIPE_RESCORES' = PENDING_SWIPE_RESCORES \ {id}
            /\ timers' = timers (+) SetToBag({Callback("score_and_process_message", id)})
       ELSE /\ timers' = timers (+) SetToBag({Callback("on_message_received", id)})
            /\ UNCHANGED PENDING_SWIPE_RESCORES
    /\ UNCHANGED <<settings, cur, model_id, meta, obj, SCORING_IN_PROGRESS, SCORING_QUEUE,
                   CURRENT_DIMENSIONS, cycles, prompt, next_id>>

\* a turn whose regenerated text is still to be rendered
Regenerating(c) == \E i \in 0..(Len(chat[c]) - 1) : TurnAt(c, i).shown < TurnAt(c, i).ver

\* the user sends a turn and the host's model answers it: the reply is rendered
\* (writing and generating take longer than the delay of a pending callback,
\* and a swiped turn is regenerated first)
Reply ==
    /\ Len(chat[cur]) + 2 <= 1 + 2 * env.replies
    /\ timers = EmptyBag
    /\ ~Regenerating(cur)
    /\ chat' = [chat EXCEPT ![cur] = @ \o <<Turn("user"), Turn("ai")>>]
    /\ CHARACTER_MESSAGE_RENDERED(Len(chat[cur]) + 1)
    /\ UNCHANGED env

\* eventSource.on(MESSAGE_SWIPED, data => ...), of the open chat's last turn
MESSAGE_SWIPED(message_id) ==
    LET state == get_chat_state
        kept == SelectSeq(state.score_history, LAMBDA e : e.message_id # message_id)
        was_scored == Len(kept) < Len(state.score_history)
    IN  IF Len(state.score_history) = 0 \/ ~was_scored
        THEN /\ chat' = [chat EXCEPT ![cur][message_id + 1].ver = @ + 1]
             /\ UNCHANGED <<obj, PENDING_SWIPE_RESCORES>>
        ELSE /\ chat' = [chat EXCEPT ![cur][message_id + 1].ver = @ + 1,
                                     ![cur][message_id + 1].scored = FALSE]
             /\ obj' = [obj EXCEPT ![meta[cur]] =
                          [state EXCEPT
                             !.score_history = kept,
                             !.drift_state =
                                 IF CURRENT_DIMENSIONS # {}
                                 THEN update_drift_state(CURRENT_DIMENSIONS, kept,
                                                         state.cusum_reset_after)
                                 ELSE @]]
             /\ PENDING_SWIPE_RESCORES' = PENDING_SWIPE_RESCORES \cup {message_id}

Swipe ==
    /\ env.swipes > 0
    /\ Len(chat[cur]) > 1
    /\ IsAiTurn(cur, Len(chat[cur]) - 1)
    /\ MESSAGE_SWIPED(Len(chat[cur]) - 1)
    /\ Spend("swipes")
    /\ UNCHANGED <<settings, cur, model_id, meta, SCORING_IN_PROGRESS, SCORING_QUEUE,
                   CURRENT_DIMENSIONS, timers, cycles, prompt, next_id>>

\* the regenerated text of a swiped turn is rendered
RenderSwiped ==
    \E id \in 0..(Len(chat[cur]) - 1) :
        /\ TurnAt(cur, id).shown < TurnAt(cur, id).ver
        /\ timers = EmptyBag
        /\ chat' = [chat EXCEPT ![cur][id + 1].shown = TurnAt(cur, id).ver]
        /\ CHARACTER_MESSAGE_RENDERED(id)
        /\ UNCHANGED env

\* the host renders an assistant turn again
Rerender ==
    \E id \in 0..(Len(chat[cur]) - 1) :
        /\ env.events > 0
        /\ IsAiTurn(cur, id)
        /\ CHARACTER_MESSAGE_RENDERED(id)
        /\ Spend("events")
        /\ UNCHANGED chat

\* the user hides an assistant turn: the host marks it is_system
HideTurn ==
    \E id \in 1..(Len(chat[cur]) - 1) :
        /\ env.events > 0
        /\ IsAiTurn(cur, id)
        /\ chat' = [chat EXCEPT ![cur][id + 1].kind = "system"]
        /\ Spend("events")
        /\ UNCHANGED <<settings, cur, model_id, meta, obj, SCORING_IN_PROGRESS, SCORING_QUEUE,
                       PENDING_SWIPE_RESCORES, CURRENT_DIMENSIONS, timers, cycles, prompt,
                       next_id>>

\* the operator selects another model
ChangeModel ==
    \E m \in Models :
        /\ env.events > 0
        /\ m # model_id
        /\ model_id' = m
        /\ Spend("events")
        /\ UNCHANGED <<settings, cur, chat, meta, obj, SCORING_IN_PROGRESS, SCORING_QUEUE,
                       PENDING_SWIPE_RESCORES, CURRENT_DIMENSIONS, timers, cycles, prompt,
                       next_id>>

\* what calibrate_dimensions(char_desc) extracts from the description of the
\* character of chat c
Calibrated(c) == IF c = "A" THEN {"d1"} ELSE {"d1", "d2"}

\* CALIBRATION_IN_PROGRESS: set before `await calibrate_dimensions` of the
\* CHAT_CHANGED handler and cleared in its finally, nowhere else
CALIBRATION_IN_PROGRESS == \E y \in cycles : y.fn = "CHAT_CHANGED"

\* load_pinned_calibration() / save_pinned_calibration(dims) for the character
\* of chat c (each chat has its own character); {} when none is pinned
load_pinned_calibration(c) == get_settings("character_dimensions")[c]

save_pinned_calibration(c, dims) ==
    settings' = [settings EXCEPT !.character_dimensions[c] = dims]

\* the end of the CHAT_CHANGED handler ("Restore module state"), for the
\* state object o as the handler holds it, in the open chat c; saved: save_chat_state(state) was
\* already called on the way
Restore(c, o, state, saved) ==
    LET rebuild == /\ state.dimensions # {}
                   /\ Len(state.score_history) > 0
                   /\ state.drift_state = <<>>
    IN  /\ CURRENT_DIMENSIONS' = state.dimensions
        /\ obj' = [obj EXCEPT ![o] =
                      IF rebuild
                      THEN [state EXCEPT !.drift_state =
                               update_drift_state(state.dimensions, state.score_history,
                                                  state.cusum_reset_after)]
                      ELSE state]
        /\ meta' = IF saved \/ rebuild THEN [meta EXCEPT ![c] = o] ELSE meta
        /\ prompt' = IF /\ get_settings("correction_enabled")
                        /\ state.active_correction.enabled
                     THEN state.active_correction.injection_text
                     ELSE prompt

\* eventSource.on(CHAT_CHANGED, ...) when chat c is opened (the caller gives
\* cur'), up to `await calibrate_dimensions(...)` or to the end
CHAT_CHANGED(c) ==
    LET state == obj[meta[c]]
        pinned == load_pinned_calibration(c)
    IN  /\ SCORING_IN_PROGRESS' = FALSE
        /\ SCORING_QUEUE' = <<>>
        /\ PENDING_SWIPE_RESCORES' = {}
        /\ IF state.dimensions # {}
           THEN /\ Restore(c, meta[c], state, FALSE)
                /\ UNCHANGED <<cycles, next_id>>
           ELSE IF pinned # {}
           THEN /\ Restore(c, meta[c], [state EXCEPT !.dimensions = pinned], TRUE)
                /\ UNCHANGED <<cycles, next_id>>
           ELSE IF CALIBRATION_IN_PROGRESS
           THEN /\ Restore(c, meta[c], state, FALSE)
                /\ UNCHANGED <<cycles, next_id>>
           ELSE /\ Cardinality(cycles) < MaxInFlight
                /\ cycles' = cycles \cup
                       {[Invocation("CHAT_CHANGED", NULL, FALSE, <<>>) EXCEPT
                            !.pc = "calibrate", !.st = meta[c], !.ch = c, !.dims = {}]}
                /\ next_id' = next_id + 1
                /\ UNCHANGED <<obj, meta, CURRENT_DIMENSIONS, prompt>>

SwitchChat ==
    \E c \in Chats :
        /\ env.switches > 0
        /\ c # cur
        /\ cur' = c
        /\ CHAT_CHANGED(c)
        /\ Spend("switches")
        /\ UNCHANGED <<settings, chat, model_id, timers>>

\* the outcomes of `await calibrate_dimensions(char_desc)`: the dimensions,
\* an empty list (empty description, invalid reply) or an exception
CalibrationOutcomes == {"dims", "none", "throw"}

\* the CHAT_CHANGED handler from the return of `await calibrate_dimensions`
\* to its end (automatic baseline generation switched off)
CalibrationDone ==
    \E y \in cycles, r \in CalibrationOutcomes :
        LET state == obj[y.st]
            dims == Calibrated(y.ch)
        IN  /\ y.fn = "CHAT_CHANGED"
            /\ cycles' = cycles \ {y}
            /\ IF r = "dims" THEN UNCHANGED env ELSE env.events > 0 /\ Spend("events")
            /\ IF r # "throw" /\ cur # y.ch
               THEN UNCHANGED <<settings, obj, meta, CURRENT_DIMENSIONS, prompt>>
               ELSE IF r = "dims"
               THEN /\ ~get_settings("baseline_enabled")
                    /\ save_pinned_calibration(cur, dims)
                    /\ Restore(cur, y.st, [state EXCEPT !.dimensions = dims], TRUE)
               ELSE /\ Restore(cur, y.st, state, FALSE)
                    /\ UNCHANGED settings
            /\ UNCHANGED <<cur, chat, model_id, SCORING_IN_PROGRESS, SCORING_QUEUE,
                           PENDING_SWIPE_RESCORES, timers, next_id>>

\* $('#dc_btn_reextract').on('click', ...) up to `await calibrate_dimensions`
Recalibrate ==
    /\ env.events > 0
    /\ \A y \in cycles : y.fn # "dc_btn_reextract"
    /\ Cardinality(cycles) < MaxInFlight
    /\ cycles' = cycles \cup
           {[Invocation("dc_btn_reextract", NULL, FALSE, <<>>) EXCEPT !.pc = "calibrate"]}
    /\ next_id' = next_id + 1
    /\ Spend("events")
    /\ UNCHANGED <<settings, cur, chat, model_id, meta, obj, SCORING_IN_PROGRESS, SCORING_QUEUE,
                   PENDING_SWIPE_RESCORES, CURRENT_DIMENSIONS, timers, prompt>>

\* the click handler from the return of `await calibrate_dimensions` to its
\* end (automatic baseline generation switched off)
RecalibrateDone ==
    \E y \in cycles, r \in CalibrationOutcomes :
        LET dims == Calibrated(y.ch)
        IN  /\ y.fn = "dc_btn_reextract"
            /\ cycles' = cycles \ {y}
            /\ IF r = "dims"
               THEN /\ ~get_settings("baseline_enabled")
                    /\ obj' = [obj EXCEPT ![meta[cur]].dimensions = dims]
                    /\ CURRENT_DIMENSIONS' = dims
                    /\ save_pinned_calibration(cur, dims)
                    /\ UNCHANGED env
               ELSE /\ env.events > 0
                    /\ Spend("events")
                    /\ UNCHANGED <<settings, obj, CURRENT_DIMENSIONS>>
            /\ UNCHANGED <<cur, chat, model_id, meta, SCORING_IN_PROGRESS, SCORING_QUEUE,
                           PENDING_SWIPE_RESCORES, timers, prompt, next_id>>

\* the last assistant turn of the open chat, NULL when there is none
LastAiTurn ==
    LET ai == {i \in 0..(Len(chat[cur]) - 1) : TurnAt(cur, i).kind \notin {"user", "system"}}
    IN  IF ai = {} THEN NULL ELSE CHOOSE i \in ai : \A k \in ai : k <= i

\* $(document).on('click', '#dc_btn_score_now', ...)
ScoreNow ==
    /\ env.events > 0
    /\ IF SCORING_IN_PROGRESS \/ LastAiTurn = NULL
       THEN UNCHANGED <<settings, cur, chat, model_id, meta, obj, SCORING_IN_PROGRESS,
                        SCORING_QUEUE, PENDING_SWIPE_RESCORES, CURRENT_DIMENSIONS, cycles,
                        prompt, next_id>>
       ELSE score_and_process_message(LastAiTurn, TRUE)
    /\ Spend("events")
    /\ UNCHANGED timers

\* a setTimeout callback runs
TimerFires ==
    \E cb \in BagToSet(timers) :
        /\ cb.fn \in {"on_message_received", "score_and_process_message"}
        /\ timers' = timers (-) SetToBag({cb})
        /\ IF cb.fn = "on_message_received"
           THEN on_message_received(cb.id)
           ELSE score_and_process_message(cb.id, TRUE)
        /\ UNCHANGED env

(***************************************************************************)
(* The backend answers: the continuations of the suspended invocations.    *)
(***************************************************************************)
\* score_response's result for one dimension: snap(clamp(parseFloat(score)))
parse_score(raw) == IF raw = NULL THEN NULL ELSE snap_to_discrete(Max2(0, Min2(FP, raw)))

\* the results the backend can give an invocation: a raw number or nothing
\* for each dimension it was asked about
Answers(y) ==
    {raw \in [Dims -> env.raw \cup {NULL}] :
        /\ \A d \in Dims \ y.dims : raw[d] = NULL
        /\ (\E d \in y.dims : raw[d] = NULL) => env.events > 0}

\* an answer that leaves a dimension out (N/A, unparsable, a failed request)
Missing(y, raw) == \E d \in y.dims : raw[d] = NULL

Empty(raw) == \A d \in Dims : raw[d] = NULL

\* how the invocation was called
CalledAs(y) == IF y.fn = "score_chat_retroactively" THEN "retro"
               ELSE IF y.force THEN "forced" ELSE "auto"

\* a store that never cuts the history
store_scores_uncapped(o, y, scores) ==
    [o EXCEPT ![meta[cur]].score_history =
                  Append(@, [message_id |-> y.msg, scores |-> scores,
                             chat |-> y.ch, ver |-> y.ver, by |-> CalledAs(y)]),
              ![meta[cur]].last_scored_message_id = y.msg]

\* store_scores(message, message_index, scores), on the heap o.  Besides the
\* code's message_id and scores an entry records where it came from: the chat
\* and the version of the text that was scored, and the kind of call.
store_scores(o, y, scores) ==
    [o EXCEPT ![meta[cur]].score_history =
                  LastN(Append(@, [message_id |-> y.msg, scores |-> scores,
                                   chat |-> y.ch, ver |-> y.ver, by |-> CalledAs(y)]),
                        MAX_SCORE_HISTORY),
              ![meta[cur]].last_scored_message_id = y.msg]

\* `await score_response(...)` of score_and_process_message returns
ScoreDone ==
    \E y \in cycles : \E raw \in Answers(y) :
        /\ y.fn = "score_and_process_message"
        /\ y.pc = "score"
        /\ IF Missing(y, raw) THEN Spend("events") ELSE UNCHANGED env
        /\ LET scores == [d \in Dims |-> parse_score(raw[d])]
               o1 == store_scores(obj, y, scores)
               o2 == [o1 EXCEPT ![y.st].messages_scored = @ + 1]
               drift == update_drift_state(o2[y.st].dimensions, o2[y.st].score_history,
                                           o2[y.st].cusum_reset_after)
               o3 == [o2 EXCEPT ![meta[cur]].drift_state = drift]     \* save_drift_state
               out == Controller(o3[y.st], drift, scores)
           IN  IF Empty(raw)
               THEN /\ Finally(y)
                    /\ UNCHANGED <<chat, meta, obj, prompt>>
               ELSE /\ chat' = [chat EXCEPT ![y.ch][y.msg + 1].scored = TRUE]
                    /\ IF ~get_settings("correction_enabled")
                       THEN /\ obj' = o3
                            /\ meta' = [meta EXCEPT ![cur] = y.st]
                            /\ Finally(y)
                            /\ UNCHANGED prompt
                       ELSE /\ prompt' = IF out.clear THEN 0 ELSE prompt
                            /\ IF out.k \in {"end", "ret"}
                               THEN /\ obj' = [o3 EXCEPT ![y.st] =
                                                 IF out.k = "end"
                                                 THEN CeilingRecovered(out.st, drift)
                                                 ELSE out.st]
                                    /\ meta' = [meta EXCEPT ![cur] = y.st]
                                    /\ Finally(y)
                               ELSE /\ obj' = [o3 EXCEPT ![y.st] = out.st]
                                    /\ cycles' = (cycles \ {y}) \cup
                                          {[y EXCEPT !.pc = "gen", !.drift = drift,
                                                     !.k = out.k, !.gdims = out.gdims,
                                                     !.gdev = out.gdev, !.rid = out.rid,
                                                     !.pre = Decided(o3[y.st])]}
                                    /\ UNCHANGED <<meta, SCORING_IN_PROGRESS, SCORING_QUEUE,
                                                   timers>>
        /\ UNCHANGED <<settings, cur, model_id, PENDING_SWIPE_RESCORES, CURRENT_DIMENSIONS,
                       next_id>>

\* `await generate_correction(...)` returns a text
GenDone ==
    \E y \in cycles :
        /\ y.pc = "gen"
        /\ prompt' = next_id                                       \* inject_correction(text)
        /\ next_id' = next_id + 1
        /\ obj' = [obj EXCEPT ![y.st] = CeilingRecovered(Resume(@, y, next_id), y.drift)]
        /\ meta' = [meta EXCEPT ![cur] = y.st]
        /\ Finally(y)
        /\ UNCHANGED <<settings, cur, chat, model_id, PENDING_SWIPE_RESCORES,
                       CURRENT_DIMENSIONS, env>>

\* `await generate_correction(...)` throws: the catch block, then finally
GenFails ==
    \E y \in cycles :
        /\ y.pc = "gen"
        /\ env.events > 0
        /\ Finally(y)
        /\ Spend("events")
        /\ UNCHANGED <<settings, cur, chat, model_id, meta, obj, PENDING_SWIPE_RESCORES,
                       CURRENT_DIMENSIONS, prompt, next_id>>

(***************************************************************************)
(* Retroactive scoring (the Score Chat button).                            *)
(***************************************************************************)
RECURSIVE Ascending(_)
Ascending(S) == IF S = {} THEN <<>>
                ELSE LET m == CHOOSE x \in S : \A z \in S : x <= z
                     IN  <<m>> \o Ascending(S \ {m})

\* to_score of score_chat_retroactively: every Nth unscored assistant turn
to_score ==
    LET counted == {i \in 0..(Len(chat[cur]) - 1) :
                        /\ IsAiTurn(cur, i)
                        /\ ~is_greeting_message(i)
                        /\ ~is_ooc_message(cur, i)}
        ai_count(i) == Cardinality({k \in counted : k <= i})
        freq == get_settings("score_frequency")
    IN  Ascending({i \in counted :
                      /\ \/ ai_count(i) % freq = 0
                         \/ ai_count(i) = 1 /\ get_settings("score_on_first")
                      /\ ~TurnAt(cur, i).scored})

\* $(document).on('click', '#dc_btn_score_chat', ...) -> score_chat_retroactively()
ScoreChat ==
    /\ env.events > 0
    /\ IF \/ get_chat_state.dimensions = {}
          \/ Len(chat[cur]) = 0
          \/ SCORING_IN_PROGRESS
          \/ to_score = <<>>
       THEN UNCHANGED <<SCORING_IN_PROGRESS, cycles, next_id>>
       ELSE /\ Cardinality(cycles) < MaxInFlight
            /\ SCORING_IN_PROGRESS' = TRUE
            /\ cycles' = cycles \cup {Invocation("score_chat_retroactively", Head(to_score),
                                                  TRUE, to_score)}
            /\ next_id' = next_id + 1
    /\ Spend("events")
    /\ UNCHANGED <<settings, cur, chat, model_id, meta, obj, SCORING_QUEUE,
                   PENDING_SWIPE_RESCORES, CURRENT_DIMENSIONS, timers, prompt>>

\* `await score_response(...)` of the retroactive loop returns (or throws)
RetroScoreDone ==
    \E y \in cycles : \E raw \in Answers(y) :
        /\ y.fn = "score_chat_retroactively"
        /\ LET scores == [d \in Dims |-> parse_score(raw[d])]
               o1 == IF Empty(raw) THEN obj
                     ELSE [store_scores(obj, y, scores) EXCEPT ![y.st].messages_scored = @ + 1]
               drift == update_drift_state(o1[y.st].dimensions, o1[y.st].score_history,
                                           o1[y.st].cusum_reset_after)
               rest == Tail(y.todo)
           IN  /\ chat' = IF Empty(raw) THEN chat
                          ELSE [chat EXCEPT ![y.ch][y.msg + 1].scored = TRUE]
               /\ IF Missing(y, raw) THEN Spend("events") ELSE UNCHANGED env
               /\ IF rest # <<>>
                  THEN /\ obj' = o1
                       /\ cycles' = (cycles \ {y}) \cup
                              {[y EXCEPT !.todo = rest, !.msg = Head(rest),
                                         !.ver = chat[y.ch][Head(rest) + 1].ver]}
                       /\ UNCHANGED <<meta, SCORING_IN_PROGRESS>>
                  ELSE /\ obj' = [o1 EXCEPT ![meta[cur]].drift_state = drift]
                       /\ meta' = [meta EXCEPT ![cur] = y.st]
                       /\ SCORING_IN_PROGRESS' = FALSE
                       /\ cycles' = cycles \ {y}
        /\ UNCHANGED <<settings, cur, model_id, SCORING_QUEUE, PENDING_SWIPE_RESCORES,
                       CURRENT_DIMENSIONS, timers, prompt, next_id>>

(***************************************************************************)
(* The extension in use: two chats, each calibrated for its character,     *)
(* events in any order.                                                    *)
(***************************************************************************)
\* settings as the operator may have set them
Configured ==
    {[DEFAULT_SETTINGS EXCEPT !.score_frequency = 1, !.correction_patience = 1,
                              !.correction_max_attempts = m,
                              !.baseline_enabled = FALSE] : m \in {1, 2}}

\* settings s once every chat outside U was opened and calibrated, which pinned
\* the calibration of its character
InUse(s, U) ==
    [s EXCEPT !.character_dimensions = [c \in Chats |-> IF c \in U THEN {} ELSE Calibrated(c)]]

Budget(raw, replies, swipes, switches, events) ==
    [raw |-> raw, replies |-> replies, swipes |-> swipes, switches |-> switches,
     events |-> events]

\* what a session may bring: answers of the backend and numbers of events
Scenarios ==
    { Budget({0, QUARTER}, MaxReplies, 0, 0, MaxEvents),
      Budget({0, QUARTER}, MaxReplies + 1, MaxSwipes + 1, 0, 0),
      Budget({QUARTER}, MaxReplies, MaxSwipes, MaxSwitches, 0),
      Budget({QUARTER}, MaxReplies + 1, 0, 0, MaxEvents) }

\* the session after start-up in chat c0; the chats of U were never opened
Started(c0, U) ==
    /\ cur = c0
    /\ chat = [c \in Chats |-> <<Turn("ai")>>]
    /\ model_id = "m1"
    /\ meta = [c \in Chats |-> HomeObj(c)]
    /\ obj = [o \in Objs |->
                LET c == CHOOSE c \in Chats : HomeObj(c) = o
                IN  [create_empty_chat_state EXCEPT
                        !.dimensions = IF c \in U THEN {} ELSE Calibrated(c)]]
    /\ SCORING_IN_PROGRESS = FALSE
    /\ SCORING_QUEUE = <<>>
    /\ PENDING_SWIPE_RESCORES = {}
    /\ CURRENT_DIMENSIONS = Calibrated(c0)
    /\ timers = EmptyBag
    /\ cycles = {}
    /\ prompt = 0
    /\ next_id = 1

Fresh == Started("A", {})

Init ==
    \/ /\ settings \in {InUse(s, {}) : s \in Configured}
       /\ Fresh
       /\ env \in Scenarios
    \/ /\ settings \in {InUse(s, {"B"}) : s \in Configured}
       /\ Started("A", {"B"})
       /\ env = Budget({QUARTER}, MaxReplies - 1, 0, MaxSwitches + 1, MaxEvents)

Next ==
    \/ Reply
    \/ Swipe
    \/ RenderSwiped
    \/ Rerender
    \/ HideTurn
    \/ ChangeModel
    \/ SwitchChat
    \/ CalibrationDone
    \/ Recalibrate
    \/ RecalibrateDone
    \/ ScoreNow
    \/ ScoreChat
    \/ TimerFires
    \/ ScoreDone
    \/ GenDone
    \/ GenFails
    \/ RetroScoreDone

Spec == Init /\ [][Next]_vars

(***************************************************************************)
(* Normal operation: one chat, no swipe, no chat switch, no click, and a    *)
(* backend that answers every request before the next reply arrives.  With *)
(* the default settings the backend scores the dimension 0.25 or 0.80; with *)
(* the quick settings, 0 or 0.25.                                           *)
(***************************************************************************)
OnTarget == Target("d1")

InitNominal ==
    /\ Fresh
    /\ \/ /\ settings = InUse(DEFAULT_SETTINGS, {})
          /\ env = Budget({QUARTER, OnTarget}, MaxDefaultReplies, 0, 0, 0)
       \/ /\ settings \in {InUse(s, {}) : s \in Configured}
          /\ env = Budget({0, QUARTER}, MaxQuickReplies, 0, 0, 0)

ReplyAfterCycle == cycles = {} /\ Reply

NextNominal ==
    \/ ReplyAfterCycle
    \/ TimerFires
    \/ ScoreDone
    \/ GenDone

Nominal == InitNominal /\ [][NextNominal]_vars

(***************************************************************************)
(* Normal operation with an unreliable backend: one event at a time, in    *)
(* the chat with two dimensions, and requests to the backend may fail.     *)
(***************************************************************************)
InitOutage ==
    /\ settings \in {InUse(s, {}) : s \in Configured}
    /\ Started("B", {})
    /\ env = Budget({QUARTER, OnTarget}, MaxOutageReplies, 0, 0, MaxEvents)

NextOutage ==
    \/ ReplyAfterCycle
    \/ TimerFires
    \/ ScoreDone
    \/ GenDone
    \/ GenFails

Outage == InitOutage /\ [][NextOutage]_vars

(***************************************************************************)
(* The same with records that are exhausted after one attempt, and a       *)
(* backend that may fail twice.                                            *)
(***************************************************************************)
InitExhausted ==
    /\ settings \in {InUse(s, {}) : s \in {c \in Configured : c.correction_max_attempts = 1}}
    /\ Started("B", {})
    /\ env = Budget({QUARTER, OnTarget}, MaxOutageReplies, 0, 0, MaxFailures)

Exhausted == InitExhausted /\ [][NextOutage]_vars

(***************************************************************************)
(* Normal operation with a character that strays far and comes back: the   *)
(* dimension of chat A (target 0.80) is scored 0 or 0.80, under the quick  *)
(* settings.                                                               *)
(***************************************************************************)
InitRecovery ==
    /\ settings \in {InUse(s, {}) : s \in Configured}
    /\ Fresh
    /\ env = Budget({0, OnTarget}, MaxRecoveryReplies, 0, 0, 0)

Recovery == InitRecovery /\ [][NextNominal]_vars

(***************************************************************************)
(* Normal operation with a character that strays a little and stays there: *)
(* the dimension of chat A (target 0.80) is scored 0.50 or 0.80, so that    *)
(* the deviation passes the threshold long before the CUSUM triggers.       *)
(***************************************************************************)
InitMild ==
    /\ settings \in {InUse(s, {}) : s \in Configured}
    /\ Fresh
    /\ env = Budget({2 * QUARTER, OnTarget}, MaxMildReplies, 0, 0, 0)

Mild == InitMild /\ [][NextNominal]_vars

(***************************************************************************)
(* The start of a session in the chat with two dimensions in which one     *)
(* answer of the backend may leave a dimension out, and a request may fail; *)
(* the dimensions are scored 0 or on target.                               *)
(***************************************************************************)
InitSparse ==
    /\ settings \in {InUse(s, {}) : s \in Configured}
    /\ Started("B", {})
    /\ env = Budget({0, OnTarget}, MaxSparseReplies, 0, 0, MaxEvents)

Sparse == InitSparse /\ [][NextOutage]_vars

(***************************************************************************)
(* Normal operation in the chat with two dimensions, with the operator's   *)
(* limit of dimensions per correction below the number of dimensions.      *)
(***************************************************************************)
InitSelection ==
    /\ settings \in {InUse([s EXCEPT !.correction_max_dimensions = 1], {}) : s \in Configured}
    /\ Started("B", {})
    /\ env = Budget({0, QUARTER}, MaxSelectionReplies, 0, 0, 0)

Selection == InitSelection /\ [][NextNominal]_vars

(***************************************************************************)
(* The request to the analysis backend, await by await: analyze() calls    *)
(* call_claude_code_analysis or call_openai_analysis.  The server answers  *)
(* when and if it likes; the timers are the program's own.                 *)
(***************************************************************************)
max_retries == 3

\* setTimeout(() => controller.abort(), 150000) of call_claude_code_analysis
AbortTimer(y) == [fn |-> "abort", id |-> y.id, delay |-> 150000]

\* await new Promise(r => setTimeout(r, delay)) of call_openai_analysis
BackoffTimer(y, attempt) ==
    [fn |-> "backoff", id |-> y.id,
     delay |-> Min2(1000 * 2 ^ (attempt - 1), 8000)]

\* the invocation y goes on to net, with the timers tm
Goes(y, net, tm) ==
    /\ cycles' = (cycles \ {y}) \cup {[y EXCEPT !.net = net]}
    /\ timers' = tm
    /\ UNCHANGED <<settings, cur, chat, model_id, meta, obj, SCORING_IN_PROGRESS, SCORING_QUEUE,
                   PENDING_SWIPE_RESCORES, CURRENT_DIMENSIONS, prompt, next_id, env>>

\* the next turn of the retry loop of call_openai_analysis: attempt++, the
\* loop condition, the backoff delay
NextAttempt(y, expect_json) ==
    LET attempt == y.net.attempt + 1
    IN  IF attempt > max_retries
        THEN Goes(y, [y.net EXCEPT !.phase = "thrown"], timers)
        ELSE Goes(y, [y.net EXCEPT !.phase = "backoff", !.attempt = attempt,
                                   !.expect_json = expect_json],
                  timers (+) SetToBag({BackoffTimer(y, attempt)}))

\* the catch block of the retry loop
Caught(y) ==
    IF y.net.attempt >= max_retries
    THEN Goes(y, [y.net EXCEPT !.phase = "thrown"], timers)
    ELSE NextAttempt(y, y.net.expect_json)

\* score_response -> analyze(messages, 4000, false) up to the first await of
\* the backend call; cached is PLUGIN_AVAILABLE after its expiry check, which
\* depends on the time of day
Request ==
    \E y \in cycles, cached \in {"null", "true", "false"} :
        /\ y.pc = "score"
        /\ y.net = NoCall
        /\ LET backend == get_settings("analysis_backend")
               net == [backend |-> backend, phase |-> "fetch", attempt |-> 0,
                       expect_json |-> FALSE]
           IN  IF backend = "claude_code"
               THEN IF cached = "false"
                    THEN Goes(y, [net EXCEPT !.phase = "thrown"], timers)
                    ELSE IF cached = "null"
                    THEN Goes(y, [net EXCEPT !.phase = "probe"], timers)
                    ELSE Goes(y, net, timers (+) SetToBag({AbortTimer(y)}))
               ELSE cached = "null" /\ Goes(y, net, timers)

\* what a fetch can come back with: a status, or a network error
ServerOutcomes == {"200", "400", "429", "503", "500", "unreachable"}

\* `await fetch(...)` settles
ServerAnswers ==
    \E y \in cycles, r \in ServerOutcomes :
        IF y.net.backend = "openai"
        THEN /\ y.net.phase = "fetch"
             /\ IF r = "unreachable"
                THEN Caught(y)
                ELSE IF r = "400" /\ y.net.expect_json
                THEN NextAttempt(y, FALSE)
                ELSE IF r \in {"429", "503"} /\ y.net.attempt < max_retries
                THEN NextAttempt(y, y.net.expect_json)
                ELSE IF r # "200"
                THEN Goes(y, [y.net EXCEPT !.phase = "text"], timers)
                ELSE Goes(y, [y.net EXCEPT !.phase = "json"], timers)
        ELSE \/ /\ y.net.phase = "probe"
                /\ IF r = "200"
                   THEN Goes(y, [y.net EXCEPT !.phase = "fetch"],
                             timers (+) SetToBag({AbortTimer(y)}))
                   ELSE Goes(y, [y.net EXCEPT !.phase = "thrown"], timers)
             \/ /\ y.net.phase = "fetch"
                /\ y.net.backend = "claude_code"
                /\ LET cleared == timers (-) SetToBag({AbortTimer(y)})     \* clearTimeout
                   IN  IF r = "unreachable"
                       THEN Goes(y, [y.net EXCEPT !.phase = "thrown"], cleared)
                       ELSE IF r # "200"
                       THEN Goes(y, [y.net EXCEPT !.phase = "text"], cleared)
                       ELSE Goes(y, [y.net EXCEPT !.phase = "json"], cleared)

\* `await response.json()` or `await response.text()` settles
BodyArrives ==
    \E y \in cycles :
        \/ /\ y.net.phase = "json"
           /\ Goes(y, [y.net EXCEPT !.phase = "returned"], timers)
        \/ /\ y.net.phase = "text"
           /\ IF y.net.backend = "openai"
              THEN Caught(y)
              ELSE Goes(y, [y.net EXCEPT !.phase = "thrown"], timers)

\* the backoff delay is over: the loop body sends the next fetch
BackoffElapsed ==
    \E y \in cycles :
        /\ y.net.phase = "backoff"
        /\ Goes(y, [y.net EXCEPT !.phase = "fetch"],
                timers (-) SetToBag({BackoffTimer(y, y.net.attempt)}))

\* the abort timer fires while the fetch is pending: AbortError
AbortFires ==
    \E y \in cycles :
        /\ y.net.phase = "fetch"
        /\ BagIn(AbortTimer(y), timers)
        /\ Goes(y, [y.net EXCEPT !.phase = "timed out"], timers (-) SetToBag({AbortTimer(y)}))

\* the backend call returned a text: score_and_process_message goes on
Returns ==
    /\ \A y \in cycles : y.net.phase = "returned"
    /\ ScoreDone

\* the backend call threw: the catch block of score_and_process_message, then
\* its finally
Throws ==
    \E y \in cycles :
        /\ y.net.phase \in {"thrown", "timed out"}
        /\ Finally(y)
        /\ UNCHANGED <<settings, cur, chat, model_id, meta, obj, PENDING_SWIPE_RESCORES,
                       CURRENT_DIMENSIONS, prompt, next_id, env>>

InitBackend ==
    /\ settings \in {[InUse(s, {}) EXCEPT !.analysis_backend = b] :
                        s \in Configured, b \in {"claude_code", "openai"}}
    /\ Fresh
    /\ env = Budget({OnTarget}, MaxReplies, 0, 0, 0)

NextBackend ==
    \/ ReplyAfterCycle
    \/ TimerFires
    \/ Request
    \/ ServerAnswers
    \/ BodyArrives
    \/ BackoffElapsed
    \/ AbortFires
    \/ Returns
    \/ Throws

\* the program's own steps are taken when they can be; nothing is assumed of
\* the server
Backend ==
    /\ InitBackend
    /\ [][NextBackend]_vars
    /\ WF_vars(TimerFires)
    /\ WF_vars(Request)
    /\ WF_vars(BackoffElapsed)
    /\ WF_vars(AbortFires)
    /\ WF_vars(Returns)
    /\ WF_vars(Throws)

(***************************************************************************)
(* Reports.  The three scores are whole numbers 0..100; the factors are in *)
(* fixed point.                                                            *)
(***************************************************************************)
\* the dimensions in the order of state.dimensions
DimList(dims) == SelectSeq(<<"d1", "d2">>, LAMBDA d : d \in dims)

\* Math.round of a fixed-point number of points
RoundPoints(x) == (x + FP \div 2) \div FP

\* a * b of two fixed-point numbers, within 32 bits
Times(a, b) == RDiv(RDiv(a, 100) * RDiv(b, 100), 10)

\* |score - target| of the scores of dimension d in the entries of h
Deviations(h, d) ==
    [i \in 1..Len(DimScores(h, d)) |-> Abs(DimScores(h, d)[i] - Target(d))]

\* Object.values(drift_state).map(d => d.deviation ?? 0)
DevValues(drift_state) ==
    LET list == DimList(DOMAIN drift_state)
    IN  [i \in 1..Len(list) |->
            IF drift_state[list[i]].deviation = NULL THEN 0
            ELSE drift_state[list[i]].deviation]

compute_variance(arr) ==
    IF Len(arr) < 2 THEN NULL
    ELSE LET m == mean(arr)
         IN  mean([i \in 1..Len(arr) |-> Times(arr[i] - m, arr[i] - m)])

compute_card_resilience(score_history, dimensions, corrections_count) ==
    IF Len(score_history) = 0 THEN 0
    ELSE
    LET threshold == get_settings("drift_threshold")
        early == SubSeq(score_history, 1, Min2(Len(score_history), 3))
        early_dims == SelectSeq(DimList(dimensions), LAMBDA d : Len(DimScores(early, d)) > 0)
        initial_deviations == [i \in 1..Len(early_dims) |-> mean(Deviations(early, early_dims[i]))]
        initial == IF Len(initial_deviations) > 0
                   THEN Max2(0, FP - mean(initial_deviations))
                   ELSE FP \div 2
        windowed_history == SubSeq(score_history, 1, Min2(Len(score_history), 20))
        scored_dims == SelectSeq(DimList(dimensions),
                                 LAMBDA d : Len(DimScores(windowed_history, d)) > 0)
        within(d) == Len(SelectSeq(Deviations(windowed_history, d), LAMBDA v : v <= threshold))
        drift_resistance ==
            IF Len(scored_dims) > 0
            THEN [i \in 1..Len(scored_dims) |->
                    RDiv(FP * within(scored_dims[i]),
                         Len(DimScores(windowed_history, scored_dims[i])))]
            ELSE <<FP \div 2>>
        correction_penalty == IF corrections_count > 0 THEN 85000 ELSE FP
        all_mean_devs == [i \in 1..Len(scored_dims) |->
                            Abs(mean(DimScores(windowed_history, scored_dims[i]))
                                - Target(scored_dims[i]))]
        overall_mean_dev == mean(all_mean_devs)
        deviation_factor == Max2(FP \div 2, FP - RDiv(overall_mean_dev * 3, 2))
    IN  RoundPoints(initial * 40 + Times(mean(drift_resistance), deviation_factor) * 50
                    + correction_penalty * 10)

\* a.concat(b)
RECURSIVE Flatten(_)
Flatten(ss) == IF ss = <<>> THEN <<>> ELSE Head(ss) \o Flatten(Tail(ss))

compute_session_quality(score_history, dimensions, drift_state) ==
    IF Len(score_history) = 0 THEN 0
    ELSE
    LET dims == DimList(dimensions)
        all_deviations == Flatten([i \in 1..Len(dims) |-> Deviations(score_history, dims[i])])
        overall_accuracy == IF Len(all_deviations) > 0
                            THEN Max2(0, FP - mean(all_deviations))
                            ELSE FP \div 2
        variance == compute_variance(all_deviations)
        consistency == IF variance # NULL THEN Max2(0, FP - variance * 2) ELSE FP \div 2
        dev_values == DevValues(drift_state)
        worst_dev == SetMax({dev_values[i] : i \in 1..Len(dev_values)})
        floor_factor == Max2(FP \div 2, FP - worst_dev)
        dims_with_data == Len(SelectSeq(dims, LAMBDA d : Len(DimScores(score_history, d)) > 0))
        coverage == IF Len(dims) > 0 THEN RDiv(FP * dims_with_data, Len(dims)) ELSE FP
        coverage_factor == Max2(60000, coverage)
        raw == overall_accuracy * 40 + consistency * 30 + floor_factor * 30
    IN  RoundPoints(RDiv(RDiv(raw, 1000) * coverage_factor, 100))

compute_model_compatibility(dimensions, ceiling_dimensions, corrections_count, score_history, drift_state) ==
    IF Len(score_history) = 0 THEN 0
    ELSE
    LET threshold == get_settings("drift_threshold")
        n_dims == Cardinality(dimensions)
        ceiling_ratio == IF n_dims > 0
                         THEN FP - RDiv(FP * Cardinality(ceiling_dimensions), n_dims)
                         ELSE FP
        dev_values == DevValues(drift_state)
        load == Max2(0, FP - RDiv(FP * corrections_count * 2, Len(score_history)))
        dims_above_threshold == Len(SelectSeq(dev_values, LAMBDA v : v > threshold))
        correction_load ==
            IF /\ corrections_count = 0
               /\ Len(score_history) >= 5
               /\ dims_above_threshold > 0
               /\ n_dims > 0
            THEN Max2(0, load - RDiv(FP * dims_above_threshold, 2 * n_dims))
            ELSE load
        end_health == IF Len(dev_values) > 0 THEN Max2(0, FP - mean(dev_values)) ELSE FP \div 2
    IN  RoundPoints(ceiling_ratio * 35 + correction_load * 25 + end_health * 40)

\* a report that is built whatever the history holds
generate_report_unguarded(state) ==
    [ generated |-> TRUE,
      card_resilience |->
          compute_card_resilience(state.score_history, state.dimensions,
                                  state.corrections_injected),
      session_quality |->
          compute_session_quality(state.score_history, state.dimensions, state.drift_state),
      model_compatibility |->
          compute_model_compatibility(state.dimensions, state.ceiling_dimensions,
                                      state.corrections_injected, state.score_history,
                                      state.drift_state) ]

\* generate_report() up to `await analyze(...)` for the insights: the report it
\* builds, NoReport for `return null`
generate_report(state) ==
    IF Len(state.score_history) = 0
    THEN NoReport
    ELSE [ generated |-> TRUE,
           card_resilience |->
               compute_card_resilience(state.score_history, state.dimensions,
                                       state.corrections_injected),
           session_quality |->
               compute_session_quality(state.score_history, state.dimensions,
                                       state.drift_state),
           model_compatibility |->
               compute_model_compatibility(state.dimensions, state.ceiling_dimensions,
                                           state.corrections_injected, state.score_history,
                                           state.drift_state) ]

\* $(document).on('click', '#dc_btn_generate_report', ...)
GenerateReport ==
    /\ env.events > 0
    /\ \A y \in cycles : y.fn # "generate_report"
    /\ Cardinality(cycles) < MaxInFlight
    /\ IF generate_report(get_chat_state).generated
       THEN /\ cycles' = cycles \cup
                   {[Invocation("generate_report", NULL, FALSE, <<>>) EXCEPT
                        !.pc = "insights", !.report = generate_report(get_chat_state)]}
            /\ next_id' = next_id + 1
       ELSE UNCHANGED <<cycles, next_id>>
    /\ Spend("events")
    /\ UNCHANGED <<settings, cur, chat, model_id, meta, obj, SCORING_IN_PROGRESS, SCORING_QUEUE,
                   PENDING_SWIPE_RESCORES, CURRENT_DIMENSIONS, timers, prompt>>

\* `await analyze(...)` for the insights returns or throws: the report, built
\* before the await from the state as it was, is stored
ReportDone ==
    \E y \in cycles :
        /\ y.fn = "generate_report"
        /\ obj' = [obj EXCEPT ![y.st].report = y.report]
        /\ meta' = [meta EXCEPT ![cur] = y.st]
        /\ cycles' = cycles \ {y}
        /\ UNCHANGED <<settings, cur, chat, model_id, SCORING_IN_PROGRESS, SCORING_QUEUE,
                       PENDING_SWIPE_RESCORES, CURRENT_DIMENSIONS, timers, prompt, next_id, env>>

\* compute_dimension_verdict(dimension, state.score_history, state.drift_state,
\*     state.ceiling_dimensions, state.ever_corrected_dimensions,
\*     state.ever_cusum_triggered, state.ever_ma_triggered), as generate_report
\* calls it
compute_dimension_verdict(dim_id, state) ==
    LET threshold == get_settings("drift_threshold")
        scores == DimScores(state.score_history, dim_id)
        ever_drifted == \/ dim_id \in state.ever_cusum_triggered
                        \/ dim_id \in state.ever_ma_triggered
        was_corrected == dim_id \in state.ever_corrected_dimensions
        within == /\ dim_id \in DOMAIN state.drift_state
                  /\ state.drift_state[dim_id].deviation # NULL
                  /\ state.drift_state[dim_id].deviation <= threshold
    IN  IF dim_id \in state.ceiling_dimensions THEN "ceiling"
        ELSE IF Len(scores) < MIN_SCORES_FOR_VERDICT THEN "insufficient_data"
        ELSE IF ~ever_drifted
        THEN IF /\ Len(scores) >= MIN_SCORES_FOR_DEVIATION_VERDICT
                /\ Abs(mean(scores) - Target(dim_id)) > threshold
             THEN "volatile"
             ELSE "natural_fit"
        ELSE IF within
        THEN IF was_corrected THEN "correctable" ELSE "maintainable"
        ELSE IF was_corrected THEN "drifting" ELSE "volatile"

\* dimension_verdicts of generate_report()
dimension_verdicts(state) ==
    [d \in state.dimensions |-> compute_dimension_verdict(d, state)]

\* $(document).on('click', '#dc_btn_clear_corrections', ...)
ClearCorrections ==
    /\ env.events > 0
    /\ prompt' = 0
    /\ obj' = [obj EXCEPT ![meta[cur]].active_correction = NoCorrection,
                          ![meta[cur]].cooldown_remaining = 0]
    /\ Spend("events")
    /\ UNCHANGED <<settings, cur, chat, model_id, meta, SCORING_IN_PROGRESS, SCORING_QUEUE,
                   PENDING_SWIPE_RESCORES, CURRENT_DIMENSIONS, timers, cycles, next_id>>

\* $(document).on('click', '#dc_btn_clear_scores', ...), confirmed
ClearScores ==
    /\ env.events > 0
    /\ prompt' = 0
    /\ obj' = [obj EXCEPT ![meta[cur]] =
                   [@ EXCEPT !.score_history = <<>>,
                             !.drift_state = <<>>,
                             !.messages_scored = 0,
                             !.last_scored_message_id = NULL,
                             !.corrections_injected = 0,
                             !.active_correction = NoCorrection,
                             !.ceiling_dimensions = {},
                             !.ever_cusum_triggered = {},
                             !.ever_ma_triggered = {},
                             !.ma_consecutive_above = [d \in Dims |-> 0],
                             !.cooldown_remaining = 0,
                             !.recovery_cycles = 0,
                             !.report = NoReport]]
    /\ chat' = [chat EXCEPT ![cur] = [i \in 1..Len(@) |-> [@[i] EXCEPT !.scored = FALSE]]]
    /\ Spend("events")
    /\ UNCHANGED <<settings, cur, model_id, meta, SCORING_IN_PROGRESS, SCORING_QUEUE,
                   PENDING_SWIPE_RESCORES, CURRENT_DIMENSIONS, timers, cycles, next_id>>

(***************************************************************************)
(* Normal operation in chat B with scores of 0.50 or 0.80: the dimension   *)
(* d1 (target 0.80) strays and comes back while d2 (target 0.50) is        *)
(* leaving, so that a record for d2 follows the record for d1.             *)
(***************************************************************************)
InitStale ==
    /\ settings \in {InUse(s, {}) : s \in {c \in Configured : c.correction_max_attempts = 2}}
    /\ Started("B", {})
    /\ env = Budget({2 * QUARTER, OnTarget}, MaxStaleReplies, 0, 0, 0)

Stale == InitStale /\ [][NextNominal]_vars

(***************************************************************************)
(* A session in which the last turn may be swiped while a cycle is awaiting *)
(* the backend: the forced re-score of the swiped turn then runs beside     *)
(* that cycle.  The dimension of chat A is scored 0 or 0.80.                *)
(***************************************************************************)
InitRace ==
    /\ settings \in {InUse(s, {}) : s \in Configured}
    /\ Fresh
    /\ env = Budget({0, OnTarget}, MaxRaceReplies, MaxSwipes, 0, 0)

NextRace ==
    \/ Reply
    \/ Swipe
    \/ RenderSwiped
    \/ TimerFires
    \/ ScoreDone
    \/ GenDone

Race == InitRace /\ [][NextRace]_vars

\* globalThis.driftguard_intercept_generate, called by the host when it
\* requests a generation (the baseline note goes under another key)
driftguard_intercept_generate ==
    LET state == get_chat_state
        has_active_correction == /\ state.active_correction.enabled
                                 /\ state.active_correction.injection_text # 0
    IN  /\ env.events > 0
        /\ prompt' = IF /\ get_settings("enabled")
                        /\ state.dimensions # {}
                        /\ has_active_correction
                     THEN state.active_correction.injection_text
                     ELSE prompt
        /\ Spend("events")
        /\ UNCHANGED <<settings, cur, chat, model_id, meta, obj, SCORING_IN_PROGRESS,
                       SCORING_QUEUE, PENDING_SWIPE_RESCORES, CURRENT_DIMENSIONS, timers,
                       cycles, next_id>>

(***************************************************************************)
(* Two characters without a calibration: chat A is open and the            *)
(* calibration of its character has returned nothing, chat B was never     *)
(* opened.  The backend answers every request, and successfully; the       *)
(* program's own steps are taken when they can be, and nothing is assumed  *)
(* of the user.                                                            *)
(***************************************************************************)
InitUncalibrated ==
    /\ settings \in {InUse(s, Chats) : s \in Configured}
    /\ cur = "A"
    /\ chat = [c \in Chats |-> <<Turn("ai")>>]
    /\ model_id = "m1"
    /\ meta = [c \in Chats |-> HomeObj(c)]
    /\ obj = [o \in Objs |-> create_empty_chat_state]
    /\ SCORING_IN_PROGRESS = FALSE
    /\ SCORING_QUEUE = <<>>
    /\ PENDING_SWIPE_RESCORES = {}
    /\ CURRENT_DIMENSIONS = {}
    /\ timers = EmptyBag
    /\ cycles = {}
    /\ prompt = 0
    /\ next_id = 1
    /\ env = Budget({QUARTER}, MaxReplies, 0, MaxSwitches + 1, 0)

NextUncalibrated ==
    \/ Reply
    \/ TimerFires
    \/ ScoreDone
    \/ GenDone
    \/ SwitchChat
    \/ CalibrationDone

Uncalibrated ==
    /\ InitUncalibrated
    /\ [][NextUncalibrated]_vars
    /\ WF_vars(TimerFires)
    /\ WF_vars(ScoreDone)
    /\ WF_vars(GenDone)
    /\ WF_vars(CalibrationDone)

(***************************************************************************)
(* Two calibrated chats, between which the user switches, and a host that  *)
(* requests generations; chat A is scored 0 under the quick settings, so   *)
(* that a correction is opened for it.                                     *)
(***************************************************************************)
InitGenerations ==
    /\ settings \in {InUse(s, {}) : s \in Configured}
    /\ Fresh
    /\ env = Budget({0}, MaxReplies, 0, MaxSwitches + 1, MaxRequests)

NextGenerations ==
    \/ ReplyAfterCycle
    \/ TimerFires
    \/ ScoreDone
    \/ GenDone
    \/ cycles = {} /\ SwitchChat
    \/ driftguard_intercept_generate

Generations == InitGenerations /\ [][NextGenerations]_vars

(***************************************************************************)
(* Normal operation in which the operator may clear the scores or the      *)
(* corrections between two cycles.                                         *)
(***************************************************************************)
InitCleared ==
    /\ settings \in {InUse(s, {}) : s \in Configured}
    /\ Fresh
    /\ env = Budget({0, OnTarget}, MaxClearedReplies, 0, 0, MaxEvents)

NextCleared ==
    \/ ReplyAfterCycle
    \/ TimerFires
    \/ ScoreDone
    \/ GenDone
    \/ cycles = {} /\ ClearScores
    \/ cycles = {} /\ ClearCorrections

Cleared == InitCleared /\ [][NextCleared]_vars

(***************************************************************************)
(* cusum() on its own: a stream of scores is fed to it one by one, for a   *)
(* target, an allowance and a decision threshold of any size.  Numbers are *)
(* in 1e-6 here, and env holds the inputs and the result.                  *)
(***************************************************************************)
Stream(scores, target, allowance, decision_threshold) ==
    [ scores |-> scores, target |-> target, allowance |-> allowance,
      decision_threshold |-> decision_threshold,
      result |-> CusumAt(MICRO, scores, target, allowance, decision_threshold) ]

InitStreams ==
    /\ settings = InUse(DEFAULT_SETTINGS, {})
    /\ Fresh
    /\ env \in {Stream(<<>>, target, allowance, decision_threshold) :
                    target \in {0, 5 * FP, 8 * FP},
                    allowance \in {0, 5 * QUARTER, 10 * QUARTER},
                    decision_threshold \in {1, 2, FP, MICRO}}

\* one more score of the 5-point scale
NextScore ==
    \E x \in {10 * DISCRETE_SCALE[i] : i \in 1..Len(DISCRETE_SCALE)} :
        /\ Len(env.scores) < MaxStream
        /\ env' = Stream(Append(env.scores, x), env.target, env.allowance,
                         env.decision_threshold)
        /\ UNCHANGED <<settings, cur, chat, model_id, meta, obj, SCORING_IN_PROGRESS,
                       SCORING_QUEUE, PENDING_SWIPE_RESCORES, CURRENT_DIMENSIONS, timers,
                       cycles, prompt, next_id>>

Streams == InitStreams /\ [][NextScore]_vars

(***************************************************************************)
(* snap_to_discrete() on its own: score_response hands it the parsed score *)
(* clamped to [0, 1], here every value of that range in steps of 1e-5.     *)
(***************************************************************************)
Snap(value, snapped) == [value |-> value, snapped |-> snapped]

InitSnaps ==
    /\ settings = InUse(DEFAULT_SETTINGS, {})
    /\ Fresh
    /\ env \in {Snap(value, NULL) : value \in 0..FP}

SnapValue ==
    /\ env.snapped = NULL
    /\ env' = Snap(env.value, snap_to_discrete(env.value))
    /\ UNCHANGED <<settings, cur, chat, model_id, meta, obj, SCORING_IN_PROGRESS,
                   SCORING_QUEUE, PENDING_SWIPE_RESCORES, CURRENT_DIMENSIONS, timers,
                   cycles, prompt, next_id>>

Snaps == InitSnaps /\ [][SnapValue]_vars

(***************************************************************************)
(* update_drift_state() on its own, for one dimension ("d1") of n: its     *)
(* target, the detector's settings and the score history are inputs; the   *)
(* history grows by one entry at a time, as store_scores appends them.     *)
(* env holds the inputs and what the detector computes from them.          *)
(***************************************************************************)
\* the history of message ids 2, 4, ... with the scores zs for the dimension
SampleHistory(zs) ==
    [k \in 1..Len(zs) |-> [message_id |-> 2 * k,
                           scores |-> [d \in Dims |-> IF d = "d1" THEN zs[k] ELSE NULL],
                           chat |-> "A", ver |-> 1, by |-> "auto"]]

\* reset is cusum_reset_after[dim.id]
Detect(target, n, reset, zs) ==
    [ target |-> target, n |-> n, reset |-> reset, zs |-> zs,
      drift |-> DriftAt(target, "d1", n, SampleHistory(zs),
                        [d \in Dims |-> IF d = "d1" THEN reset ELSE NULL]),
      acc |-> cusum(DimScores(SampleHistory(zs), "d1"), target,
                    cusum_parameters(n).allowance, cusum_parameters(n).decision_threshold) ]

\* the gap the threshold sliders keep between the two thresholds
MIN_GAP == 5000

\* the cross-validation of the two threshold sliders' input handler
cross_validate(s) ==
    IF s.drift_alert_threshold >= s.drift_threshold - MIN_GAP
    THEN [s EXCEPT !.drift_alert_threshold = Max2(5000, s.drift_threshold - MIN_GAP)]
    ELSE s

\* the detector's settings as the sliders can set them: the window alone, or
\* the drift threshold too, which brings the alert threshold under it
DetectorSettings ==
    {[DEFAULT_SETTINGS EXCEPT !.drift_window = w] : w \in {4, 8}}
    \cup {cross_validate([DEFAULT_SETTINGS EXCEPT !.drift_threshold = th,
                                                  !.drift_window = w]) :
              th \in {20000, 30000}, w \in {4, 8}}

InitDetector ==
    /\ settings \in {InUse(s, {}) : s \in DetectorSettings}
    /\ Fresh
    /\ env \in {Detect(target, n, reset, <<>>) :
                    target \in {20000, 50000, 80000}, n \in {1, 2}, reset \in {NULL, 2}}

\* one more entry; with a second dimension scored, the entry may have no
\* score for this one
NextSample ==
    \E x \in {DISCRETE_SCALE[i] : i \in 1..Len(DISCRETE_SCALE)} \cup {NULL} :
        /\ Len(env.zs) < MaxSamples
        /\ x = NULL => env.n > 1
        /\ env' = Detect(env.target, env.n, env.reset, Append(env.zs, x))
        /\ UNCHANGED <<settings, cur, chat, model_id, meta, obj, SCORING_IN_PROGRESS,
                       SCORING_QUEUE, PENDING_SWIPE_RESCORES, CURRENT_DIMENSIONS, timers,
                       cycles, prompt, next_id>>

Detector == InitDetector /\ [][NextSample]_vars

(***************************************************************************)
(* The intensity that generate_correction() asks for, on its own: the      *)
(* drifting dimensions handed to it (deviation and trend of each, in the    *)
(* order of the drift state) and the escalation context are inputs.  env    *)
(* holds the inputs and the intensity computed from them.                  *)
(***************************************************************************)
\* [...a].sort((a, b) => b.deviation - a.deviation): one more element put in
\* its place in a sorted list, behind the elements that compare equal
RECURSIVE InsertByDeviation(_, _)
InsertByDeviation(sorted, x) ==
    IF sorted = <<>> THEN <<x>>
    ELSE IF x.deviation > Head(sorted).deviation THEN <<x>> \o sorted
    ELSE <<Head(sorted)>> \o InsertByDeviation(Tail(sorted), x)

RECURSIVE SortByDeviation(_)
SortByDeviation(ds) ==
    IF ds = <<>> THEN <<>>
    ELSE InsertByDeviation(SortByDeviation(SubSeq(ds, 1, Len(ds) - 1)), ds[Len(ds)])

\* worst: the max dimensions that deviate most
worst_dims(drifting_dims) ==
    LET max == get_settings("correction_max_dimensions")
        sorted == SortByDeviation(drifting_dims)
    IN  SubSeq(sorted, 1, Min2(max, Len(sorted)))

\* an intensity that is damped in an escalation too
correction_intensity_damped_always(drifting_dims, escalation_context) ==
    LET threshold == get_settings("drift_threshold")
        worst == worst_dims(drifting_dims)
        worst_deviation == IF Len(worst) > 0
                           THEN SetMax({worst[i].deviation : i \in 1..Len(worst)}) ELSE 0
        graded == IF threshold > 0 /\ worst_deviation * 10 >= 18 * threshold THEN "STRONG"
                  ELSE IF threshold > 0 /\ worst_deviation * 10 >= 13 * threshold THEN "MODERATE"
                  ELSE "SUBTLE"
        floored == IF escalation_context /\ graded = "SUBTLE" THEN "MODERATE" ELSE graded
        correcting_count == Cardinality({i \in 1..Len(worst) : worst[i].trend = "correcting"})
    IN  IF correcting_count * 2 > Len(worst)
        THEN IF floored = "STRONG" THEN "MODERATE" ELSE "SUBTLE"
        ELSE floored

\* `intensity` of generate_correction(drifting_dims, ..., escalation_context);
\* deviation_ratio < 1.3 is taken as 10 * worst_deviation < 13 * threshold
correction_intensity(drifting_dims, escalation_context) ==
    LET threshold == get_settings("drift_threshold")
        worst == worst_dims(drifting_dims)
        worst_deviation == IF Len(worst) > 0
                           THEN SetMax({worst[i].deviation : i \in 1..Len(worst)}) ELSE 0
        graded == IF threshold > 0 /\ worst_deviation * 10 >= 18 * threshold THEN "STRONG"
                  ELSE IF threshold > 0 /\ worst_deviation * 10 >= 13 * threshold THEN "MODERATE"
                  ELSE "SUBTLE"
        floored == IF escalation_context /\ graded = "SUBTLE" THEN "MODERATE" ELSE graded
        correcting_count == Cardinality({i \in 1..Len(worst) : worst[i].trend = "correcting"})
    IN  IF correcting_count * 2 > Len(worst) /\ ~escalation_context
        THEN IF floored = "STRONG" THEN "MODERATE"
             ELSE IF floored = "MODERATE" THEN "SUBTLE" ELSE floored
        ELSE floored

Graded(drifting_dims, escalation_context) ==
    [ drifting_dims |-> drifting_dims, escalation_context |-> escalation_context,
      intensity |-> correction_intensity(drifting_dims, escalation_context) ]

\* the settings that the intensity reads
IntensitySettings ==
    {[DEFAULT_SETTINGS EXCEPT !.correction_max_dimensions = m] : m \in {1, 2}}

\* deviations on both sides of 1.3 and 1.8 times the default threshold, and
\* on the two marks themselves
RatioMarks == {25000, 26000, 30000, 36000, 50000}

InitIntensities ==
    /\ settings \in {InUse(s, {}) : s \in IntensitySettings}
    /\ Fresh
    /\ env \in {Graded(<<>>, e) : e \in BOOLEAN}

\* one more drifting dimension
NextDrifting ==
    \E dev \in RatioMarks, trend \in {"drifting", "stable", "correcting"} :
        /\ Len(env.drifting_dims) < MaxDrifting
        /\ env' = Graded(Append(env.drifting_dims, [deviation |-> dev, trend |-> trend]),
                         env.escalation_context)
        /\ UNCHANGED <<settings, cur, chat, model_id, meta, obj, SCORING_IN_PROGRESS,
                       SCORING_QUEUE, PENDING_SWIPE_RESCORES, CURRENT_DIMENSIONS, timers,
                       cycles, prompt, next_id>>

Intensities == InitIntensities /\ [][NextDrifting]_vars

(***************************************************************************)
(* A session in which chat B is opened for the first time: its character   *)
(* has to be calibrated, and the calibration may fail.                     *)
(***************************************************************************)
InitFirstVisit ==
    /\ settings \in {InUse(s, {"B"}) : s \in Configured}
    /\ Started("A", {"B"})
    /\ env = Budget({0, QUARTER}, MaxReplies + 1, 0, MaxSwitches, MaxEvents)

NextFirstVisit ==
    \/ ReplyAfterCycle
    \/ TimerFires
    \/ ScoreDone
    \/ GenDone
    \/ SwitchChat
    \/ CalibrationDone

FirstVisit == InitFirstVisit /\ [][NextFirstVisit]_vars

(***************************************************************************)
(* The end of a long session: chat A has had n replies, each scored 0.75   *)
(* by an automatic cycle (score_frequency 1), n within two of the cap of   *)
(* the score history; the session goes on as in normal operation.          *)
(***************************************************************************)
\* the chat after n scored replies
LongChat(n) ==
    [i \in 1..(1 + 2 * n) |->
        IF i = 1 THEN Turn("ai")
        ELSE IF i % 2 = 0 THEN Turn("user")
        ELSE [Turn("ai") EXCEPT !.scored = TRUE]]

\* the score history after n scored replies
LongHistory(n) ==
    [k \in 1..n |-> [message_id |-> 2 * k,
                     scores |-> [d \in Dims |-> IF d = "d1" THEN 3 * QUARTER ELSE NULL],
                     chat |-> "A", ver |-> 1, by |-> "auto"]]

\* the session state after n scored replies
LongState(n) ==
    [create_empty_chat_state EXCEPT
        !.dimensions = Calibrated("A"),
        !.score_history = LongHistory(n),
        !.drift_state = update_drift_state(Calibrated("A"), LongHistory(n),
                                           create_empty_chat_state.cusum_reset_after),
        !.messages_scored = n,
        !.last_scored_message_id = 2 * n]

InitLongSession ==
    \E n \in (MAX_SCORE_HISTORY - 2)..MAX_SCORE_HISTORY :
        /\ settings \in {InUse(s, {}) : s \in Configured}
        /\ cur = "A"
        /\ chat = [c \in Chats |-> IF c = "A" THEN LongChat(n) ELSE <<Turn("ai")>>]
        /\ model_id = "m1"
        /\ meta = [c \in Chats |-> HomeObj(c)]
        /\ obj = [o \in Objs |->
                    IF o = HomeObj("A") THEN LongState(n)
                    ELSE [create_empty_chat_state EXCEPT !.dimensions = Calibrated("B")]]
        /\ SCORING_IN_PROGRESS = FALSE
        /\ SCORING_QUEUE = <<>>
        /\ PENDING_SWIPE_RESCORES = {}
        /\ CURRENT_DIMENSIONS = Calibrated("A")
        /\ timers = EmptyBag
        /\ cycles = {}
        /\ prompt = 0
        /\ next_id = 1
        /\ env = Budget({QUARTER, 3 * QUARTER}, n + MaxLateReplies, 0, 0, 0)

LongSession == InitLongSession /\ [][NextNominal]_vars

(***************************************************************************)
(* Late in a session in the chat with two dimensions, in normal operation. *)
(* The session so far is given by the scores of its scoring cycles; the    *)
(* state it has reached is computed cycle by cycle, as ScoreDone and       *)
(* GenDone do for a cycle that runs alone.                                 *)
(***************************************************************************)
\* a session: the state object, the injected text and the next identity
Session(st, text, id) == [st |-> st, prompt |-> text, next_id |-> id]

\* the value of a set of one element: each stage of a cycle is computed once
\* and the next stage is given its value
Only(S) == CHOOSE x \in S : TRUE

\* the session z after one more reply, message_index, was rendered and its
\* cycle has scored it `scores` and has settled, any correction text it asked
\* for having been generated
Settled(z, message_index, scores) ==
    LET y == [ id |-> z.next_id, fn |-> "score_and_process_message", pc |-> "score",
               msg |-> message_index, force |-> FALSE, st |-> meta[cur], ch |-> cur,
               ver |-> 1, dims |-> z.st.dimensions, todo |-> <<>>, drift |-> <<>>,
               k |-> "none", gdims |-> {}, gdev |-> 0, rid |-> 0,
               pre |-> Decided(create_empty_chat_state), net |-> NoCall,
               report |-> NoReport ]
        text == z.next_id + 1
        Ended(drift, out) ==
            LET c == [y EXCEPT !.k = out.k, !.gdims = out.gdims, !.gdev = out.gdev,
                               !.rid = out.rid]
            IN  IF out.k = "ret"
                THEN Session(out.st, IF out.clear THEN 0 ELSE z.prompt, z.next_id + 1)
                ELSE IF out.k = "end"
                THEN Session(CeilingRecovered(out.st, drift),
                             IF out.clear THEN 0 ELSE z.prompt, z.next_id + 1)
                ELSE Session(CeilingRecovered(Only({Resume(out.st, c, text)}), drift),
                             text, z.next_id + 2)
        Decide(s3, drift) == Only({Ended(drift, out) : out \in {Controller(s3, drift, scores)}})
        Detected(s2, drift) ==
            Only({Decide(s3, drift) : s3 \in {[s2 EXCEPT !.drift_state = drift]}})
        Stored(s2) ==
            Only({Detected(s2, drift) :
                     drift \in {update_drift_state(s2.dimensions, s2.score_history,
                                                   s2.cusum_reset_after)}})
    IN  Only({Stored(s2) :
                 s2 \in {[store_scores([o \in Objs |-> z.st], y, scores)[meta[cur]]
                             EXCEPT !.messages_scored = @ + 1]}})

\* the session after the replies 2, 4, ... were scored as the script says
RECURSIVE AfterScript(_, _, _)
AfterScript(z, script, k) ==
    IF k > Len(script) THEN z
    ELSE CHOOSE r \in {AfterScript(Settled(x, 2 * k, script[k]), script, k + 1) : x \in {z}} :
             TRUE

\* the dimension that was steady at first strays and the one that strayed
\* comes back: while one is corrected the other one's drift begins
Crossing ==
    << [d1 |-> 0, d2 |-> 3 * QUARTER],
       [d1 |-> 3 * QUARTER, d2 |-> 0],
       [d1 |-> 3 * QUARTER, d2 |-> 0],
       [d1 |-> 3 * QUARTER, d2 |-> 0],
       [d1 |-> 0, d2 |-> 0] >>

InitLate ==
    /\ settings = InUse([DEFAULT_SETTINGS EXCEPT !.score_frequency = 1,
                                                 !.correction_patience = 1,
                                                 !.correction_max_attempts = 1,
                                                 !.baseline_enabled = FALSE], {})
    /\ cur = "B"
    /\ chat = [c \in Chats |-> IF c = "B" THEN LongChat(Len(Crossing)) ELSE <<Turn("ai")>>]
    /\ model_id = "m1"
    /\ meta = [c \in Chats |-> HomeObj(c)]
    /\ LET z == AfterScript(Session([create_empty_chat_state EXCEPT
                                         !.dimensions = Calibrated("B")], 0, 1),
                            Crossing, 1)
       IN  /\ obj = [o \in Objs |->
                        IF o = HomeObj("B") THEN z.st
                        ELSE [create_empty_chat_state EXCEPT !.dimensions = Calibrated("A")]]
           /\ prompt = z.prompt
           /\ next_id = z.next_id
    /\ SCORING_IN_PROGRESS = FALSE
    /\ SCORING_QUEUE = <<>>
    /\ PENDING_SWIPE_RESCORES = {}
    /\ CURRENT_DIMENSIONS = Calibrated("B")
    /\ timers = EmptyBag
    /\ cycles = {}
    /\ env = Budget({0, OnTarget}, Len(Crossing) + MaxLateReplies, 0, 0, 0)

Late == InitLate /\ [][NextNominal]_vars

\* the score histories of a session of up to MaxReportEntries scored replies
ReportScores(n) == [1..n -> {0, QUARTER, OnTarget}]

ReportHistory(n, zs) ==
    [k \in 1..n |-> [message_id |-> 2 * k,
                     scores |-> [d \in Dims |-> IF d = "d1" THEN zs[k] ELSE NULL],
                     chat |-> "A", ver |-> 1, by |-> "auto"]]

\* the session state after n replies were scored with corrections switched off
ReportState(n, zs) ==
    [create_empty_chat_state EXCEPT
        !.dimensions = Calibrated("A"),
        !.score_history = ReportHistory(n, zs),
        !.drift_state = IF n = 0 THEN <<>>
                        ELSE update_drift_state(Calibrated("A"), ReportHistory(n, zs),
                                                create_empty_chat_state.cusum_reset_after),
        !.messages_scored = n,
        !.last_scored_message_id = IF n = 0 THEN NULL ELSE 2 * n]

InitReports ==
    \E n \in 0..MaxReportEntries : \E zs \in ReportScores(n) :
        /\ settings = InUse([DEFAULT_SETTINGS EXCEPT !.correction_enabled = FALSE,
                                                     !.score_frequency = 1], {})
        /\ cur = "A"
        /\ chat = [c \in Chats |-> IF c = "A" THEN LongChat(n) ELSE <<Turn("ai")>>]
        /\ model_id = "m1"
        /\ meta = [c \in Chats |-> HomeObj(c)]
        /\ obj = [o \in Objs |->
                    IF o = HomeObj("A") THEN ReportState(n, zs)
                    ELSE [create_empty_chat_state EXCEPT !.dimensions = Calibrated("B")]]
        /\ SCORING_IN_PROGRESS = FALSE
        /\ SCORING_QUEUE = <<>>
        /\ PENDING_SWIPE_RESCORES = {}
        /\ CURRENT_DIMENSIONS = Calibrated("A")
        /\ timers = EmptyBag
        /\ cycles = {}
        /\ prompt = 0
        /\ next_id = 1
        /\ env = Budget({QUARTER}, n, 0, 0, MaxEvents)

NextReports ==
    \/ GenerateReport
    \/ ReportDone

Reports == InitReports /\ [][NextReports]_vars

(***************************************************************************)
(* Properties.                                                             *)
(***************************************************************************)
\* the entries of a session-state object's score history
Entries(o) == {obj[o].score_history[k] : k \in 1..Len(obj[o].score_history)}

\* C1: at any time at most one scoring+correction cycle is in flight,
\* whatever started it.
C1_SingleFlight == Cardinality({y \in cycles : y.pc # "calibrate"}) <= 1

\* C2: a cycle started in chat A writes nothing into the session state of the
\* chat that is open when it resumes, and no chat's session state is replaced
\* by another chat's state object.
C2_NoCrossChatWrite ==
    \A c \in Chats :
        /\ meta[c] = HomeObj(c)
        /\ \A e \in Entries(HomeObj(c)) : e.chat = c

HasEntry(o, m) == \E e \in Entries(o) : e.message_id = m

\* C3: a swipe on a message with a score entry leaves, in one step, no entry
\* of that message, the drift state recomputed from the remaining history,
\* and the message armed for a re-score; a swipe on a message without an
\* entry changes nothing and arms nothing.
C3_SwipeAtomic ==
    [][ env'.swipes < env.swipes =>
          LET m == Len(chat[cur]) - 1
              o == meta[cur]
          IN  IF HasEntry(o, m)
              THEN /\ \A k \in 1..Len(obj'[o].score_history) :
                          obj'[o].score_history[k].message_id # m
                   /\ obj'[o].drift_state =
                          update_drift_state(obj'[o].dimensions, obj'[o].score_history,
                                             obj'[o].cusum_reset_after)
                   /\ m \in PENDING_SWIPE_RESCORES'
              ELSE UNCHANGED <<obj, meta, PENDING_SWIPE_RESCORES, prompt, timers, cycles,
                               SCORING_QUEUE, SCORING_IN_PROGRESS>> ]_vars

\* C4: an unforced score_and_process_message for a message that already has a
\* score entry adds no second entry for it.
C4_Idempotent ==
    \A o \in Objs : \A i, j \in 1..Len(obj[o].score_history) :
        (i < j /\ obj[o].score_history[i].message_id = obj[o].score_history[j].message_id
               /\ obj[o].score_history[i].chat = obj[o].score_history[j].chat
               /\ obj[o].score_history[i].ver = obj[o].score_history[j].ver)
            => obj[o].score_history[j].by # "auto"

\* C6: a dimension in ceiling_dimensions is never in the dim_ids of a record
\* that is being opened, and never the target of an escalation.
C6_CeilingNotCorrected ==
    [][ \A o \in Objs :
          (/\ obj'[o].active_correction.enabled
           /\ \/ obj'[o].active_correction.rid # obj[o].active_correction.rid
              \/ obj'[o].active_correction.attempt > obj[o].active_correction.attempt)
             => obj'[o].active_correction.dim_ids \cap obj'[o].ceiling_dimensions = {} ]_vars

\* C7: an enabled record has 1 <= attempt <= max_attempts.
C7_AttemptBounded ==
    \A o \in Objs :
        obj[o].active_correction.enabled
            => /\ obj[o].active_correction.attempt >= 1
               /\ obj[o].active_correction.attempt <= get_settings("correction_max_attempts")

\* C10: every queued index leaves the queue after the cycle in flight settles
\* without a further external event: when nothing is in flight and no callback
\* is pending, the queue is empty.
C10_QueueDrained ==
    (cycles = {} /\ timers = EmptyBag) => SCORING_QUEUE = <<>>

\* the scores of dimension d in the history of object o, oldest first
ScoresOf(o, d) == [k \in 1..Len(obj[o].score_history) |-> obj[o].score_history[k].scores[d]]

\* some dimension of state-object s is classified drifting by its saved drift state
SomeDrifting(s) ==
    \E d \in DOMAIN s.drift_state :
        /\ d \notin s.ceiling_dimensions
        /\ s.drift_state[d].correcting \/ s.ma_consecutive_above[d] >= MA_CONSECUTIVE_REQUIRED

\* the record of o is exhausted and a scoring cycle evaluates it in this step
ExhaustedEvaluation(o) ==
    /\ obj[o].active_correction.enabled
    /\ obj[o].active_correction.attempt >= get_settings("correction_max_attempts")
    /\ obj[o].active_correction.scores_since_correction + 1
           >= get_settings("correction_patience")
    /\ obj'[o].messages_scored = obj[o].messages_scored + 1
    /\ SomeDrifting(obj'[o])

\* the record of o is the same before and after the step, patience reset
Held(o) ==
    /\ obj'[o].active_correction.enabled
    /\ obj'[o].active_correction.rid = obj[o].active_correction.rid
    /\ obj'[o].active_correction.scores_since_correction = 0
    /\ obj'[o].ceiling_dimensions = obj[o].ceiling_dimensions

\* the trends of the corrected dimensions after the step
TrendsAfter(o) ==
    {obj'[o].drift_state[d].trend :
        d \in obj[o].active_correction.dim_ids \cap DOMAIN obj'[o].drift_state}

\* C5 (as claimed): an evaluation of an exhausted record that finds it not
\* recovered always moves its dimensions to the ceiling; the record is never
\* held.
C5_ExhaustedAlwaysCeiling ==
    [][ \A o \in Objs : ExhaustedEvaluation(o) => ~Held(o) ]_vars

\* C5 (amended): an exhausted record goes to the ceiling only at an evaluation
\* where a corrected dimension is trending "drifting"; the evaluation holds
\* the record (patience reset) when no corrected dimension is trending
\* "drifting", and when one is, only if the worst deviation improved by more
\* than 0.02.
C5_CeilingOnlyWhenWorsening ==
    [][ \A o \in Objs :
          /\ (/\ obj[o].active_correction.enabled
              /\ obj[o].ceiling_dimensions # obj'[o].ceiling_dimensions
              /\ obj[o].active_correction.dim_ids \subseteq obj'[o].ceiling_dimensions)
                => "drifting" \in TrendsAfter(o)
          /\ (ExhaustedEvaluation(o) /\ Held(o) /\ "drifting" \in TrendsAfter(o))
                => obj'[o].active_correction.deviation_at_correction
                       < obj[o].active_correction.deviation_at_correction - 2000
          /\ (ExhaustedEvaluation(o) /\ "drifting" \notin TrendsAfter(o))
                => \/ Held(o)
                   \/ ~obj'[o].active_correction.enabled
                   \/ obj'[o].active_correction.rid # obj[o].active_correction.rid
                   \/ \E y \in cycles' : y.pc = "gen" /\ y.k = "recnew" ]_vars

C5_Ceilinged == \E o \in Objs : obj[o].ceiling_dimensions # {}

\* C8: default settings, one dimension at target 0.80: after five scoring
\* cycles that each scored it 0.25 the record is enabled for that dimension,
\* its text is injected and corrections_injected >= 1.
FiveLow(o) ==
    /\ settings = InUse(DEFAULT_SETTINGS, {})
    /\ obj[o].dimensions = {"d1"}
    /\ ScoresOf(o, "d1") = <<QUARTER, QUARTER, QUARTER, QUARTER, QUARTER>>
    /\ cycles = {}

C8_ActiveAfterFiveLow ==
    FiveLow(meta["A"]) =>
        /\ obj[meta["A"]].active_correction.enabled
        /\ "d1" \in obj[meta["A"]].active_correction.dim_ids
        /\ prompt # 0
        /\ prompt = obj[meta["A"]].active_correction.injection_text
        /\ obj[meta["A"]].corrections_injected >= 1

C8_FiveLowSettled == FiveLow(meta["A"])

\* C9: ... and once the next recovery_patience cycles scored it 0.80 the
\* injection is cleared, the record disabled and the cooldown entered.
C9_RetiredAfterRecovery ==
    (/\ settings = InUse(DEFAULT_SETTINGS, {})
     /\ ScoresOf(meta["A"], "d1") = <<QUARTER, QUARTER, QUARTER, QUARTER, QUARTER,
                                      3 * QUARTER, 3 * QUARTER>>
     /\ cycles = {})
        => /\ ~obj[meta["A"]].active_correction.enabled
           /\ prompt = 0
           /\ obj[meta["A"]].cooldown_remaining = get_settings("correction_cooldown")

\* s with its first k elements removed
DropFirst(s, k) == SubSeq(s, k + 1, Len(s))

\* C11: the scoring queue holds no message index twice, and indices leave it
\* in the order in which they entered: every step removes a (possibly empty)
\* front part of the queue and adds at most one index at the back.
C11_QueueDedupFifo ==
    [][ /\ \A i, j \in 1..Len(SCORING_QUEUE') :
              i # j => SCORING_QUEUE'[i] # SCORING_QUEUE'[j]
        /\ \E k \in 0..Len(SCORING_QUEUE) :
              \/ SCORING_QUEUE' = DropFirst(SCORING_QUEUE, k)
              \/ /\ Len(SCORING_QUEUE') = Len(SCORING_QUEUE) - k + 1
                 /\ DropFirst(SCORING_QUEUE, k)
                        = SubSeq(SCORING_QUEUE', 1, Len(SCORING_QUEUE') - 1) ]_vars

\* the drain has handed the index at the front to a callback while another
\* index stays queued
C11_DequeuedOneOfTwo ==
    /\ cycles = {}
    /\ Len(SCORING_QUEUE) >= 1
    /\ \E cb \in BagToSet(timers) :
          /\ cb.delay = 100
          /\ cb.id < SCORING_QUEUE[1]

\* how many indices at the front of q no longer refer to an assistant turn
RECURSIVE StaleCount(_)
StaleCount(q) ==
    IF q = <<>> THEN 0
    ELSE IF IsAiTurn(cur, Head(q)) THEN 0
    ELSE 1 + StaleCount(Tail(q))

\* the message ids in a score history
ScoredIds(h) == {h[k].message_id : k \in 1..Len(h)}

\* C12: when a cycle of score_and_process_message settles, every queued index
\* at the front that no longer refers to an assistant turn is discarded: it
\* is in the queue no more, no callback is scheduled for it and no score
\* entry appears for it; the drain goes on to the next queued index, which
\* is handed to a callback.
C12_StaleDropped ==
    [][ \A y \in cycles :
          (/\ y.fn = "score_and_process_message"
           /\ \A z \in cycles' : z.id # y.id)
          => LET Q == SCORING_QUEUE
                 k == StaleCount(Q)
             IN  /\ \A i \in 1..k :
                       /\ \A j \in 1..Len(SCORING_QUEUE') : SCORING_QUEUE'[j] # Q[i]
                       /\ CopiesIn(QueuedCallback(Q[i]), timers')
                              = CopiesIn(QueuedCallback(Q[i]), timers)
                       /\ \A o \in Objs :
                              Q[i] \in ScoredIds(obj'[o].score_history)
                                 => \/ Q[i] \in ScoredIds(obj[o].score_history)
                                    \/ Q[i] = y.msg
                 /\ IF k < Len(Q)
                    THEN /\ SCORING_QUEUE' = DropFirst(Q, k + 1)
                         /\ timers' = timers (+) SetToBag({QueuedCallback(Q[k + 1])})
                    ELSE /\ SCORING_QUEUE' = <<>>
                         /\ timers' = timers ]_vars

\* a turn that was rendered, and queued, while the cycle of an earlier message
\* was in flight has been hidden and dropped by the drain, which handed the
\* index queued behind it to a callback
C12_SkippedStale ==
    /\ cycles = {}
    /\ SCORING_QUEUE = <<>>
    /\ \E cb \in BagToSet(timers) : \E i \in 1..(Len(chat[cur]) - 1) :
          /\ cb.delay = 100
          /\ i < cb.id
          /\ get_chat_state.last_scored_message_id # NULL
          /\ get_chat_state.last_scored_message_id < i
          /\ TurnAt(cur, i).kind = "system"
          /\ i \notin ScoredIds(get_chat_state.score_history)

\* C13: the score history never holds more than 200 entries; a score stored
\* while it holds 200 evicts exactly the oldest entry, keeps the order of the
\* others and puts the new entry last.
C13_HistoryCapFifo ==
    [][ \A o \in Objs :
          LET h == obj[o].score_history
              g == obj'[o].score_history
          IN  /\ Len(g) <= MAX_SCORE_HISTORY
              /\ (Len(h) = MAX_SCORE_HISTORY /\ obj'[o].messages_scored > obj[o].messages_scored)
                    => /\ Len(g) = MAX_SCORE_HISTORY
                       /\ SubSeq(g, 1, Len(g) - 1) = Tail(h)
                       /\ g[Len(g)].message_id = obj'[o].last_scored_message_id
                       /\ g[Len(g)].message_id > h[Len(h)].message_id ]_vars

\* the history is full and its oldest entry has been evicted
C13_Evicted ==
    /\ Len(obj[meta["A"]].score_history) = MAX_SCORE_HISTORY
    /\ obj[meta["A"]].score_history[1].message_id > 2

\* C14: a calibration that was started in one chat and completes after the
\* user went to another chat is not stored as the dimensions or as the pinned
\* calibration of the chat and character that are current at completion,
\* for the automatic calibration and for the Recalibrate button alike.
C14_CalibrationStaysHome ==
    [][\A y \in cycles \ cycles' :
          (y.pc = "calibrate" /\ cur # y.ch) =>
              /\ obj'[meta'[cur]].dimensions = obj[meta[cur]].dimensions
              /\ settings'.character_dimensions = settings.character_dimensions]_vars

\* a step in which turn m is rendered: one more 500 ms callback for m
Rendered(m) ==
    \E fn \in {"on_message_received", "score_and_process_message"} :
        timers' = timers (+) SetToBag({Callback(fn, m)})

\* C15: the swipe re-score is one-shot.  A render of a turn that is flagged
\* for re-scoring arms exactly one forced scoring of it and removes the flag;
\* a render of a turn that is not flagged takes the normal, non-forced path
\* and flags nothing; the forced callback starts at most one cycle, a forced
\* one for that turn; a chat switch removes every flag.
C15_SwipeRescoreOneShot ==
    [][/\ \A m \in 0..(Len(chat'[cur]) - 1) :
            Rendered(m) =>
                IF m \in PENDING_SWIPE_RESCORES
                THEN /\ timers' = timers (+) SetToBag({Callback("score_and_process_message", m)})
                     /\ PENDING_SWIPE_RESCORES' = PENDING_SWIPE_RESCORES \ {m}
                ELSE /\ timers' = timers (+) SetToBag({Callback("on_message_received", m)})
                     /\ PENDING_SWIPE_RESCORES' = PENDING_SWIPE_RESCORES
       /\ \A cb \in BagToSet(timers) :
            (cb.fn = "score_and_process_message" /\ timers' = timers (-) SetToBag({cb})) =>
                /\ Cardinality(cycles' \ cycles) <= 1
                /\ \A y \in cycles' \ cycles : y.force /\ y.msg = cb.id
       /\ cur' # cur => PENDING_SWIPE_RESCORES' = {}]_vars

\* a swiped turn was rendered, which armed the forced scoring that is now in
\* flight and removed the flag; swiped and rendered once more, it took the
\* normal path
C15_RescoreArmedOnce ==
    \E m \in 0..(Len(chat[cur]) - 1) :
        /\ m \notin PENDING_SWIPE_RESCORES
        /\ TurnAt(cur, m).ver > 2
        /\ \E y \in cycles : y.fn = "score_and_process_message" /\ y.force /\ y.msg = m
        /\ CopiesIn(Callback("on_message_received", m), timers) = 1

\* C16: when `await generate_correction` of a cycle fails, what the controller
\* decides on (record, ceiling set, CUSUM reset markers, cooldown) is left
\* either as it was before the controller began or as a successful generation
\* would have left it, never in between.
C16_FailureAtomic ==
    [][\A y \in cycles \ cycles' :
          (y.pc = "gen" /\ next_id' = next_id) =>
              \/ Decided(obj'[y.st]) = y.pre
              \/ Decided(obj'[y.st]) =
                     Decided(CeilingRecovered(Resume(obj[y.st], y, next_id), y.drift))]_vars

\* a chat without calibrated dimensions has no score and no correction record
Unscored(c) ==
    obj[meta[c]].dimensions = {} =>
        /\ obj[meta[c]].score_history = <<>>
        /\ ~obj[meta[c]].active_correction.enabled
        /\ \A y \in cycles : y.ch = c => y.pc = "calibrate"

\* C17: a calibration that fails (an empty result or an exception) leaves the
\* dimensions of every chat state and the pinned calibrations as they were;
\* and as long as a chat has no calibrated dimensions none of its turns is
\* scored and no correction is generated for it.
C17_FailedCalibrationHarmless ==
    [][/\ \A y \in cycles \ cycles' :
            (y.pc = "calibrate" /\ env'.events < env.events) =>
                /\ \A o \in Objs : obj'[o].dimensions = obj[o].dimensions
                /\ settings'.character_dimensions = settings.character_dimensions
       /\ \A c \in Chats : Unscored(c)']_vars

\* C18: every scoring cycle that was started settles and clears the busy
\* flag, whether or not the backend ever answers.
C18_CycleSettles == SCORING_IN_PROGRESS ~> ~SCORING_IN_PROGRESS

\* the Generate Report button is clicked while the open chat has no score
\* (the click is the only step of its kind that uses up an event and leaves
\* every chat and timer as it is)
ReportOfNothing ==
    /\ env'.events < env.events
    /\ get_chat_state.score_history = <<>>
    /\ UNCHANGED <<settings, cur, chat, model_id, timers, prompt, SCORING_IN_PROGRESS>>
    /\ \A y \in cycles' \ cycles : y.fn = "generate_report"

\* C19 as stated: generating a report when the score history is empty yields
\* a report whose resilience, session quality and model compatibility are 0.
C19_EmptyReportAllZero ==
    [][ReportOfNothing =>
          \E y \in cycles' :
              /\ y.fn = "generate_report"
              /\ y.report.generated
              /\ y.report.card_resilience = 0
              /\ y.report.session_quality = 0
              /\ y.report.model_compatibility = 0]_vars

\* C19, amended: generating a report when the score history is empty is not
\* an error and produces no report: nothing is computed, requested or stored
\* (the stored report stays as it was); each of the three score functions
\* returns 0 for an empty history.
C19_EmptyReportIsNoReport ==
    [][ReportOfNothing =>
          /\ cycles' = {}
          /\ obj' = obj
          /\ compute_card_resilience(<<>>, get_chat_state.dimensions,
                                     get_chat_state.corrections_injected) = 0
          /\ compute_session_quality(<<>>, get_chat_state.dimensions,
                                     get_chat_state.drift_state) = 0
          /\ compute_model_compatibility(get_chat_state.dimensions,
                                         get_chat_state.ceiling_dimensions,
                                         get_chat_state.corrections_injected, <<>>,
                                         get_chat_state.drift_state) = 0]_vars

\* the button was clicked on an empty history and there is no report
C19_AskedWithNoScores ==
    /\ env.events < MaxEvents
    /\ cycles = {}
    /\ get_chat_state.score_history = <<>>
    /\ ~get_chat_state.report.generated

\* every score of the stream is within the allowance of the target
Quiet(s) == \A i \in 1..Len(s.scores) : Abs(s.scores[i] - s.target) <= s.allowance

C21_Case ==
    /\ get_settings("drift_threshold") = 20000
    /\ get_settings("drift_window") = 8
    /\ env.n = 1
    /\ env.target = 20000
    /\ env.reset = NULL

ScalePoints == {DISCRETE_SCALE[i] : i \in 1..Len(DISCRETE_SCALE)}

\* C22: snap_to_discrete maps every value in [0, 1] to a point of the scale
\* that no other point is nearer to, and of two points equally near (the
\* value is 0.125, 0.375, 0.625 or 0.875) it always gives the lower one.
C22_SnapsToNearest ==
    env.snapped # NULL =>
        /\ env.snapped \in ScalePoints
        /\ \A p \in ScalePoints : Abs(env.snapped - env.value) <= Abs(p - env.value)
        /\ \A p \in ScalePoints :
              Abs(p - env.value) = Abs(env.snapped - env.value) => env.snapped <= p
        /\ env.value % QUARTER = QUARTER \div 2 => env.snapped = env.value - QUARTER \div 2

\* the tie 0.625 was snapped to 0.5
C22_TieSnapped == env.value = 62500 /\ env.snapped = 2 * QUARTER

\* the record of o is retired as recovered in this step: it was enabled, it
\* is disabled, and its dimensions were not sent to the ceiling
RetiredAsRecovered(o) ==
    /\ obj[o].active_correction.enabled
    /\ ~obj'[o].active_correction.enabled
    /\ obj'[o].ceiling_dimensions \subseteq obj[o].ceiling_dimensions

\* dimension d's post-correction deviation after the k-th entry of history h
\* was within threshold - recovery_margin (since: the record's since_message)
WithinAt(h, k, d, since) ==
    LET pa == post_correction_average(d, SubSeq(h, 1, k), since)
    IN  /\ pa # NULL
        /\ Abs(pa - Target(d)) <= get_settings("drift_threshold")
                                      - get_settings("recovery_margin") + FLOAT_EPSILON

\* the last recovery_patience scoring cycles of history h all came after the
\* record was opened and found every corrected dimension within tolerance
ConfirmedRun(h, record) ==
    /\ Len(h) >= get_settings("recovery_patience")
    /\ \A k \in (Len(h) - get_settings("recovery_patience") + 1)..Len(h) :
          /\ h[k].message_id > record.since_message
          /\ \A d \in record.dim_ids : WithinAt(h, k, d, record.since_message)

\* C23: a record is retired as recovered only in a cycle that completes a run
\* of recovery_patience consecutive scoring cycles in each of which every
\* corrected dimension's post-correction deviation was within threshold -
\* recovery_margin; the retirement clears the injection, sets the CUSUM reset
\* marker of each of its dimensions and sets the cooldown to the setting.
C23_RetiredAfterConfirmedRun ==
    [][\A o \in Objs :
          RetiredAsRecovered(o) =>
              /\ ConfirmedRun(obj'[o].score_history, obj[o].active_correction)
              /\ prompt' = 0
              /\ \A d \in obj[o].active_correction.dim_ids :
                     obj'[o].cusum_reset_after[d] = obj'[o].last_scored_message_id
              /\ obj'[o].cooldown_remaining = get_settings("correction_cooldown")]_vars

\* C24: while cooldown_remaining > 0 every completed scoring cycle decrements
\* it by exactly one, whether or not a dimension is drifting in that cycle.
C24_CooldownCountsEveryCycle ==
    [][\A o \in Objs :
          (/\ obj[o].cooldown_remaining > 0
           /\ obj'[o].messages_scored = obj[o].messages_scored + 1)
              => obj'[o].cooldown_remaining = obj[o].cooldown_remaining - 1]_vars

\* the scoring of invocation y has returned in this step and its controller
\* has run
Decides(y) ==
    /\ y.fn = "score_and_process_message"
    /\ y.pc = "score"
    /\ \A z \in cycles' : z.id = y.id => z.pc # "score"

\* dimension d was triggered, by CUSUM or by the fallback, in the cycle of
\* invocation y
TriggeredIn(y, d) ==
    /\ d \in DOMAIN y.drift
    /\ \/ y.drift[d].correcting
       \/ obj[y.st].ma_consecutive_above[d] >= MA_CONSECUTIVE_REQUIRED

Opened(o) ==
    /\ obj'[o].active_correction.enabled
    /\ obj'[o].active_correction.rid # obj[o].active_correction.rid

\* C26: a record that is opened holds at most max_dimensions dimensions, and
\* none of the drifting dimensions left out deviates more than one it holds.
C26_AtMostMaxDimensions ==
    [][\A o \in Objs :
          Opened(o) =>
              \E y \in cycles \ cycles' :
                  /\ y.pc = "gen"
                  /\ Cardinality(obj'[o].active_correction.dim_ids)
                         <= get_settings("correction_max_dimensions")
                  /\ obj'[o].active_correction.dim_ids \subseteq y.gdims
                  /\ \A d \in obj'[o].active_correction.dim_ids :
                         \A e \in y.gdims \ obj'[o].active_correction.dim_ids :
                             y.drift[d].deviation >= y.drift[e].deviation]_vars

\* the cycle of invocation y ends in this step, and it stored a score
EndsScored(y) ==
    /\ y.fn = "score_and_process_message"
    /\ \A z \in cycles' : z.id # y.id
    /\ \/ y.pc = "gen"
       \/ obj'[y.st].messages_scored > obj[y.st].messages_scored

\* C27: with corrections enabled, a scoring cycle that stored a score leaves
\* no dimension in ceiling_dimensions whose current deviation is at or below
\* the threshold, cycles during the cooldown included.
C27_NoRecoveredCeiling ==
    [][\A y \in cycles :
          (EndsScored(y) /\ get_settings("correction_enabled")) =>
              \A d \in obj'[y.st].ceiling_dimensions \cap DOMAIN obj'[y.st].drift_state :
                  \/ obj'[y.st].drift_state[d].deviation = NULL
                  \/ obj'[y.st].drift_state[d].deviation > get_settings("drift_threshold")]_vars

\* the scores of dimension d in the entries of object o after message m
ScoresAfter(o, d, m) ==
    DimScores(SelectSeq(obj'[o].score_history, LAMBDA e : e.message_id > m), d)

\* C28: when a chat's drift state is computed while dimension d has a reset
\* marker m, the accumulator and the trigger of d come from the entries with
\* message_id > m alone: the accumulator is the CUSUM of those scores, and
\* the trigger is set only if one of them lies beyond the allowance.
C28_OnlyScoresAfterMarker ==
    [][\A o \in Objs : \A d \in DOMAIN obj'[o].drift_state :
          (/\ obj'[o].messages_scored > obj[o].messages_scored
           /\ obj[o].cusum_reset_after[d] # NULL) =>
              LET after == ScoresAfter(o, d, obj[o].cusum_reset_after[d])
                  allowance == cusum_parameters(Cardinality(obj'[o].dimensions)).allowance
                  entry == obj'[o].drift_state[d]
              IN  /\ entry.correcting =>
                         \E i \in 1..Len(after) : Abs(after[i] - Target(d)) > allowance
                  /\ entry.cusum_value \in {0, CusumFold(0, after, Target(d), allowance)}
                  /\ after = <<>> => entry.cusum_value = 0]_vars

\* a dimension has a reset marker, a cycle has computed the drift state since,
\* and the scores of the whole history would have set the trigger that the
\* scores after the marker do not set
C28_OlderScoresIgnored ==
    \E o \in Objs : \E d \in DOMAIN obj[o].drift_state :
        LET m == obj[o].cusum_reset_after[d]
            p == cusum_parameters(Cardinality(obj[o].dimensions))
        IN  /\ m # NULL
            /\ obj[o].last_scored_message_id > m
            /\ ~obj[o].drift_state[d].correcting
            /\ cusum(DimScores(obj[o].score_history, d), Target(d), p.allowance,
                     p.decision_threshold).triggered

\* the controller of a scoring cycle ran on object o in this step
ControllerRan(o) ==
    /\ get_settings("correction_enabled")
    /\ obj'[o].messages_scored > obj[o].messages_scored
    /\ \E y \in cycles : /\ y.fn = "score_and_process_message"
                         /\ y.pc = "score"
                         /\ y.st = o
                         /\ \A z \in cycles' : z.id = y.id => z.pc # "score"

\* `drift` of the cycle that ran on object o in this step
CycleDrift(o) ==
    update_drift_state(obj'[o].dimensions, obj'[o].score_history, obj[o].cusum_reset_after)

\* dimension d was CUSUM-triggered or ceilinged in the cycle of this step
Handled(o, d) ==
    \/ d \in obj[o].ceiling_dimensions
    \/ CycleDrift(o)[d].correcting

\* the deviation of d exceeded the threshold in the cycle that stored the
\* k-th entry of history h
AboveAt(h, k, d) ==
    LET e == DriftOf(d, 1, SubSeq(h, 1, k), create_empty_chat_state.cusum_reset_after)
    IN  e.deviation # NULL /\ e.deviation > get_settings("drift_threshold")

MarkedAsRecovered(o, d) ==
    /\ obj[o].active_correction.enabled
    /\ d \in obj[o].active_correction.dim_ids
    /\ obj'[o].cusum_reset_after[d] # obj[o].cusum_reset_after[d]
    /\ obj'[o].cusum_reset_after[d] = obj'[o].last_scored_message_id

RecentScores(h, d) == DimScores(LastN(h, get_settings("drift_window")), d)

\* dimension d is put into a record of object o in this step
Placed(o, d) ==
    /\ obj'[o].active_correction.enabled
    /\ d \in obj'[o].active_correction.dim_ids
    /\ \/ ~obj[o].active_correction.enabled
       \/ d \notin obj[o].active_correction.dim_ids
       \/ obj'[o].active_correction.rid # obj[o].active_correction.rid

TierOf(intensity) ==
    IF intensity = "SUBTLE" THEN 1 ELSE IF intensity = "MODERATE" THEN 2 ELSE 3

\* the dimensions selected among ds: a choice of min(max, Len) of them such
\* that none left out deviates more than one selected
SelectedOf(ds) ==
    {S \in SUBSET (1..Len(ds)) :
        /\ Cardinality(S) = Min2(get_settings("correction_max_dimensions"), Len(ds))
        /\ \A i \in S : \A j \in (1..Len(ds)) \ S : ds[i].deviation >= ds[j].deviation}

\* the reference intensity for a selection S of ds
Reference(ds, S, escalation) ==
    LET worst_deviation == IF S = {} THEN 0 ELSE SetMax({ds[i].deviation : i \in S})
        threshold == get_settings("drift_threshold")
        tier == IF worst_deviation * 10 < 13 * threshold THEN 1
                ELSE IF worst_deviation * 10 < 18 * threshold THEN 2 ELSE 3
        majority == 2 * Cardinality({i \in S : ds[i].trend = "correcting"}) > Cardinality(S)
    IN  IF escalation THEN Max2(tier, 2)
        ELSE IF majority THEN Max2(tier - 1, 1)
        ELSE tier

\* C31: the intensity is the reference function of the deviation ratio of the
\* worst selected dimension, the trends of the selected dimensions and the
\* escalation flag: SUBTLE below 1.3, MODERATE below 1.8, STRONG otherwise,
\* one tier lower (not below SUBTLE) when a strict majority of the selected
\* dimensions trend correcting and it is no escalation, and never SUBTLE in
\* an escalation.
C31_IntensityIsReference ==
    /\ \E S \in SelectedOf(env.drifting_dims) :
           TierOf(env.intensity) = Reference(env.drifting_dims, S, env.escalation_context)
    /\ env.escalation_context => env.intensity # "SUBTLE"

\* an escalation in which a strict majority of the selected dimensions trends
\* correcting, and a damped first correction
C31_DampingSeen ==
    /\ Len(env.drifting_dims) = MaxDrifting
    /\ \A S \in SelectedOf(env.drifting_dims) :
           2 * Cardinality({i \in S : env.drifting_dims[i].trend = "correcting"})
               > Cardinality(S)
    /\ \/ env.escalation_context /\ env.intensity = "STRONG"
       \/ ~env.escalation_context /\ env.intensity = "MODERATE"

\* C32: a call of the HTTP backend is retried at most 3 times, and a call
\* that got a non-OK status other than 429 and 503, whose error text it is
\* reading, ends with an error: it does not go on to the backoff delay of a
\* further request.
C32_NoRetryOnOtherFailures ==
    [][\A y \in cycles : \A z \in cycles' :
          (y.net.backend = "openai" /\ z.id = y.id) =>
              /\ z.net.attempt <= max_retries
              /\ y.net.phase = "text" => z.net.phase # "backoff"]_vars

\* C33: a dimension that was ever placed in a correction record is never
\* given the verdict natural_fit.
C33_CorrectedNeverNaturalFit ==
    \A o \in Objs : \A d \in obj[o].dimensions :
        d \in obj[o].ever_corrected_dimensions =>
            dimension_verdicts(obj[o])[d] # "natural_fit"

\* C34: no dimension is at the same time in ceiling_dimensions and in the
\* dim_ids of an enabled correction record.
C34_CeilingNotCorrected ==
    \A o \in Objs :
        obj[o].active_correction.enabled =>
            obj[o].active_correction.dim_ids \cap obj[o].ceiling_dimensions = {}

\* C34 between cycles: the same, in the states in which no invocation is in
\* flight.
C34_CeilingNotCorrectedAtRest ==
    cycles = {} => C34_CeilingNotCorrected

\* C35: while the cooldown is running no correction record is enabled, and an
\* enabled record names at least one dimension.
C35_CooldownExcludesActive ==
    \A o \in Objs :
        /\ obj[o].cooldown_remaining > 0 => ~obj[o].active_correction.enabled
        /\ obj[o].active_correction.enabled => obj[o].active_correction.dim_ids # {}

\* C36: recovery_cycles is 0 when a correction record is opened or replaced,
\* and a scoring cycle either counts one more confirming cycle or leaves
\* recovery_cycles at 0.
C36_RecoveryCyclesReset ==
    [][\A o \in Objs :
         /\ (/\ obj'[o].active_correction.enabled
             /\ obj'[o].active_correction.rid # obj[o].active_correction.rid)
                => obj'[o].recovery_cycles = 0
         /\ ControllerRan(o)
                => obj'[o].recovery_cycles \in {0, obj[o].recovery_cycles + 1}]_vars

\* C36, the consequence: a record retired by the recovery confirmation has
\* been open for at least recovery_patience scoring cycles (the confirming
\* cycles that retire it were counted for it).
C36_RetiredAfterOwnConfirmations ==
    [][\A o \in Objs :
         (/\ ControllerRan(o)
          /\ obj[o].active_correction.enabled
          /\ ~obj'[o].active_correction.enabled
          /\ obj[o].recovery_cycles > 0
          /\ obj'[o].recovery_cycles = 0)
             => obj'[o].last_scored_message_id >=
                    obj[o].active_correction.since_message
                        + 2 * get_settings("recovery_patience")]_vars

\* C37: in a drift state computed by update_drift_state, the severe trigger
\* is set only where the correcting trigger is set.
C37_SevereImpliesCorrecting ==
    env.drift.severe => env.drift.correcting

\* C37 (amended): a dimension whose severe trigger is set has at least
\* MIN_SCORES_FOR_CORRECTION scores, one of which, not older than its reset
\* marker, is farther from the target than the severe allowance.
C37_SevereHasCause ==
    env.drift.severe =>
        /\ Len(SelectSeq(env.zs, LAMBDA x : x # NULL)) >= MIN_SCORES_FOR_CORRECTION
        /\ \E k \in 1..Len(env.zs) :
              /\ env.zs[k] # NULL
              /\ env.reset = NULL \/ 2 * k > env.reset
              /\ Abs(env.zs[k] - env.target) > cusum_parameters(env.n).severe_allowance

\* the severe trigger is set and the correcting trigger is not
C37_SevereAlone == env.drift.severe /\ ~env.drift.correcting

\* C38: once every cycle and every render has been handled, the score history
\* of the open chat holds no entry computed from a text that a swipe has
\* replaced since.
C38_NoEntryOfReplacedText ==
    (/\ cycles = {}
     /\ timers = EmptyBag
     /\ SCORING_QUEUE = <<>>
     /\ ~Regenerating(cur))
        => \A k \in 1..Len(get_chat_state.score_history) :
              LET e == get_chat_state.score_history[k]
              IN  e.chat = cur => e.ver = TurnAt(cur, e.message_id).ver

\* C39: when the host requests a generation, the text under the correction
\* injection key is the injection_text of the open chat's correction record
\* if that record is enabled, and empty otherwise.
C39_InjectedIsCurrentRecord ==
    [][driftguard_intercept_generate =>
          prompt' = IF get_chat_state.active_correction.enabled
                    THEN get_chat_state.active_correction.injection_text
                    ELSE 0]_vars

\* C40: a chat that is opened without a calibration while the calibration of
\* another chat is in flight is eventually calibrated, unless the user leaves
\* it.
C40_LateComerCalibrated ==
    \A c \in Chats :
        (/\ cur = c
         /\ obj[meta[c]].dimensions = {}
         /\ \E y \in cycles : y.fn = "CHAT_CHANGED" /\ y.ch # c)
            ~> (obj[meta[c]].dimensions # {} \/ cur # c)

====
